---- MODULE Spec2Model ----
(***************************************************************************)
(* Market Data Access Layer of the trading chatbot backend                 *)
(* (src/src/services/marketService.js): symbol extraction, the fixed      *)
(* window rate limiter, the time-boxed cache and the quote client.         *)
(*                                                                         *)
(* The module holds one set of variables and several specifications, one  *)
(* per part of the service:                                                *)
(*   SpecExtract  extractSymbolsFromMessage applied to bounded messages    *)
(*   SpecRate     concurrent callers of checkRateLimit, with the clock      *)
(*   FairSpecRate SpecRate with the event loop's fairness: due timers fire  *)
(*   SpecCache    concurrent callers of getCachedData with a fetch function *)
(*                that returns a new value on each call, or fails           *)
(*   SpecMarket   request handlers calling getStockData,                    *)
(*                getMultipleQuotes and getRelevantMarketData against an    *)
(*                unreliable provider                                       *)
(*   SpecSentiment calculateMarketSentiment applied to bounded lists        *)
(*   SpecChat     POST /message: sendMessage of the chat controller with    *)
(*                generateResponse of the AI service, over the quote client *)
(*   SpecBatchCache two handlers whose quote requests follow or overlap     *)
(*   SpecDetailed two handlers calling getDetailedStockData                *)
(*   SpecHistory  two handlers of POST /message and DELETE /history        *)
(*   SpecReady    two handlers, every operation that awaits ensureReady     *)
(*   SpecMarketRoute GET /market/:symbol: getMarketData of the controller  *)
(*   SpecShutdown the process of server.js: connections, termination        *)
(*                signals and the handlers that close the server and exit   *)
(*                                                                         *)
(* Time is in milliseconds, as Date.now() gives it.                        *)
(***************************************************************************)
EXTENDS Integers, Sequences, FiniteSets, TLC

VARIABLES
    message,      \* extractor: the input string, a sequence of characters
    exPc,         \* extractor: "start" before the call, "done" after it
    exResult,     \* extractor: the array extractSymbolsFromMessage returned
    now,          \* Date.now()
    advances,     \* how many times the clock has been advanced
    rateLimit,    \* this.rateLimit: [requests, resetTime, maxRequests]
    caller,       \* per caller of checkRateLimit: where it is, and what it saw
    granted,      \* calls of checkRateLimit that returned in the current window
    cache,        \* this.cache: a function from the keys set to [data, timestamp]
    stats,        \* this.stats
    fetchSeq,     \* how many times the fetch function has been invoked
    getter,       \* per caller of getCachedData: where it is, and what it saw
    yahooFinance, \* the module variable yahooFinance: "null" or "module"
    initPromise,  \* the promise of initYahooFinance: pending, fulfilled, rejected
    worker,       \* per request handler: the quote request it is running
    started,      \* how many quote requests have been started
    chatHistoryStore, \* chatController's Map from a userId to its messages
    isGeminiActive,   \* aiService.isGeminiActive && aiService.model
    marketData,   \* sentiment: the argument, << >> when it is missing
    sentiment,    \* sentiment: the label returned, "none" before the call
    server,       \* server.js: the HTTP server app.listen returned
    process       \* the Node process: signals received, handlers pending, exit

extractVars == <<message, exPc, exResult>>

clockVars == <<now, advances>>

rateVars == <<rateLimit, caller, granted>>

cacheVars == <<cache, stats>>

getVars == <<fetchSeq, getter>>

marketVars == <<yahooFinance, initPromise, worker, started>>

chatVars == <<chatHistoryStore, isGeminiActive>>

sentimentVars == <<marketData, sentiment>>

processVars == <<server, process>>

vars == <<message, exPc, exResult, now, advances, rateLimit, caller, granted,
          cache, stats, fetchSeq, getter, yahooFinance, initPromise, worker, started,
          chatHistoryStore, isGeminiActive, marketData, sentiment, server, process>>

(***************************************************************************)
(* Characters.  A string is a sequence of one-character strings.           *)
(***************************************************************************)
UpperLetters ==
    <<"A","B","C","D","E","F","G","H","I","J","K","L","M",
      "N","O","P","Q","R","S","T","U","V","W","X","Y","Z">>

LowerLetters ==
    <<"a","b","c","d","e","f","g","h","i","j","k","l","m",
      "n","o","p","q","r","s","t","u","v","w","x","y","z">>

Digits == {"0","1","2","3","4","5","6","7","8","9"}

Range(s) == {s[i] : i \in DOMAIN s}

UpperSet == Range(UpperLetters)

WordChars == Range(UpperLetters) \cup Range(LowerLetters) \cup Digits \cup {"_"}

\* /[A-Z]/
IsUpperLetter(c) == c \in UpperSet

\* \w of a JavaScript regular expression: [A-Za-z0-9_]
IsWordChar(c) == c \in WordChars

\* String.prototype.toUpperCase, one character
UpperOf == [c \in Range(LowerLetters) |->
               UpperLetters[CHOOSE i \in DOMAIN LowerLetters : LowerLetters[i] = c]]

ToUpperChar(c) == IF c \in DOMAIN UpperOf THEN UpperOf[c] ELSE c

\* message.toUpperCase()
ToUpperCase(s) == [i \in DOMAIN s |-> ToUpperChar(s[i])]

(***************************************************************************)
(* extractSymbolsFromMessage                                               *)
(***************************************************************************)
\* the longest token the pattern accepts: the 5 of [A-Z]{1,5}
MaxSymbolLen == 5

\* .slice(0, 5)
MaxSymbols == 5

\* the commonWords set
commonWords == {
    <<"T","H","E">>, <<"A","N","D">>, <<"F","O","R">>, <<"A","R","E">>, <<"B","U","T">>,
    <<"N","O","T">>, <<"Y","O","U">>, <<"A","L","L">>, <<"C","A","N">>, <<"H","E","R">>,
    <<"W","A","S">>, <<"O","N","E">>, <<"O","U","R">>, <<"H","A","D">>, <<"G","E","T">>,
    <<"M","A","Y">>, <<"H","I","M">>, <<"O","L","D">>, <<"S","E","E">>, <<"N","O","W">>,
    <<"W","A","Y">>, <<"W","H","O">>, <<"B","O","Y">>, <<"I","T","S">>, <<"L","E","T">>,
    <<"P","U","T">>, <<"S","A","Y">>, <<"S","H","E">>, <<"T","O","O">>, <<"U","S","E">>,
    <<"A","P","I">>, <<"W","I","T","H">>, <<"S","T","O","C","K">>, <<"P","R","I","C","E">>,
    <<"O","F">>, <<"I","S">>, <<"I","N">>, <<"A","T">>, <<"T","O">>, <<"F","R","O","M">>,
    <<"B","Y">>, <<"O","N">>, <<"A","S">>, <<"O","R">>, <<"A","N">>, <<"B","E">>, <<"S","O">>,
    <<"U","P">>, <<"O","U","T">>, <<"I","F">>, <<"N","O">>, <<"G","O">>, <<"D","O">>,
    <<"M","Y">>, <<"I","T">>, <<"W","E">>, <<"M","E">>, <<"H","E">>, <<"U","S">>, <<"A","M">>,
    <<"P","M">>, <<"A","I">>, <<"V","S">>, <<"V","I","A">>, <<"P","E","R">>, <<"E","T","C">>,
    <<"S","H","O","W">>, <<"T","E","L","L">>, <<"G","I","V","E">>, <<"F","I","N","D">>,
    <<"W","H","A","T">>, <<"W","H","E","N">>, <<"W","H","E","R","E">>, <<"W","H","Y">>,
    <<"H","O","W">>, <<"M","U","C","H">>, <<"M","A","N","Y">>, <<"S","O","M","E">>,
    <<"M","O","R","E">>, <<"L","E","S","S">>, <<"T","H","A","N">>, <<"T","H","E","N">>,
    <<"T","H","E","M">>, <<"T","H","E","S","E">>, <<"T","H","O","S","E">>, <<"T","H","I","S">>,
    <<"T","H","A","T">>, <<"H","A","S">>, <<"B","E","E","N">>, <<"W","I","L","L">>,
    <<"A","B","O","U","T">>
    }

\* \b at position q (between s[q-1] and s[q]) of s
WordBoundary(s, q) ==
    LET before == q > 1 /\ q - 1 <= Len(s) /\ IsWordChar(s[q - 1])
        after  == q <= Len(s) /\ IsWordChar(s[q])
    IN  before # after

\* The ends (index after the last matched character) of every way
\* /\$?[A-Z]{1,5}\b/ matches s starting at position p, for one choice of
\* the optional sigil: d = 1 takes the "$", d = 0 does not.
MatchEnds(s, p, d) ==
    { (p + d + k) : k \in { n \in 1..MaxSymbolLen :
          /\ d = 1 => (p <= Len(s) /\ s[p] = "$")
          /\ p + d + n - 1 <= Len(s)
          /\ \A j \in (p + d)..(p + d + n - 1) : IsUpperLetter(s[j])
          /\ WordBoundary(s, p + d + n) } }

SetMax(S) == CHOOSE x \in S : \A y \in S : y <= x

\* The end of the match the regular expression engine finds at p, 0 if none:
\* the greedy "$?" is tried first, then the greedy {1,5} longest first.
MatchAt(s, p) ==
    IF MatchEnds(s, p, 1) # {} THEN SetMax(MatchEnds(s, p, 1))
    ELSE IF MatchEnds(s, p, 0) # {} THEN SetMax(MatchEnds(s, p, 0))
    ELSE 0

\* String.prototype.match with the g flag: every match, left to right,
\* each search resuming where the previous match ended.
RECURSIVE MatchAll(_, _)
MatchAll(s, p) ==
    IF p > Len(s) THEN << >>
    ELSE LET e == MatchAt(s, p)
         IN  IF e = 0 THEN MatchAll(s, p + 1)
             ELSE <<SubSeq(s, p, e - 1)>> \o MatchAll(s, e)

\* s.replace('$', ''): the first "$" removed
RECURSIVE StripSigil(_)
StripSigil(tok) ==
    IF tok = << >> THEN << >>
    ELSE IF Head(tok) = "$" THEN Tail(tok)
    ELSE <<Head(tok)>> \o StripSigil(Tail(tok))

\* mutant: the filter without its stopword test
IsValidSymbolAnyWord(symbol) ==
    /\ ~(Len(symbol) < 1 \/ Len(symbol) > MaxSymbolLen)
    /\ Len(symbol) >= 1 /\ \A i \in DOMAIN symbol : IsUpperLetter(symbol[i])

\* the filter callback of validSymbols
IsValidSymbol(symbol) ==
    /\ symbol \notin commonWords
    /\ ~(Len(symbol) < 1 \/ Len(symbol) > MaxSymbolLen)
    /\ Len(symbol) >= 1 /\ \A i \in DOMAIN symbol : IsUpperLetter(symbol[i])

\* mutant: duplicates collapsed onto their last occurrence
RECURSIVE DedupKeepLast(_)
DedupKeepLast(a) ==
    IF a = << >> THEN << >>
    ELSE LET rest == DedupKeepLast(Tail(a))
         IN  IF Head(a) \in Range(rest) THEN rest ELSE <<Head(a)>> \o rest

\* [...new Set(a)]: first occurrences, in insertion order
RECURSIVE Dedup(_)
Dedup(a) ==
    IF a = << >> THEN << >>
    ELSE LET rest == Dedup(SubSeq(a, 1, Len(a) - 1))
             last == a[Len(a)]
         IN  IF last \in Range(rest) THEN rest ELSE Append(rest, last)

\* a.slice(0, n)
Slice(a, n) == SubSeq(a, 1, IF Len(a) < n THEN Len(a) ELSE n)

possibleSymbols(msg) == MatchAll(ToUpperCase(msg), 1)

validSymbols(msg) ==
    LET possible == possibleSymbols(msg)
        stripped == [i \in DOMAIN possible |-> StripSigil(possible[i])]
    IN  SelectSeq(stripped, IsValidSymbol)

\* mutant: the list returned without .slice(0, 5)
extractWithoutSlice(msg) == Dedup(validSymbols(msg))

extractSymbolsFromMessage(msg) == Slice(Dedup(validSymbols(msg)), MaxSymbols)

(***************************************************************************)
(* Bounded messages: every concatenation of at most MaxChunks pieces.      *)
(* The pieces put the pattern's cases next to each other: single letter    *)
(* tickers, a sigil, lower case, stopwords with and without a following    *)
(* separator, a digit glued to a word, a run longer than five letters.     *)
(***************************************************************************)
MaxChunks == 4

Chunks == {
    <<"A"," ","B"," ">>,
    <<"C"," ","D"," ">>,
    <<"E"," ","F"," ">>,
    <<"$","A"," ","o","f"," ">>,
    <<"i","s"," ">>,
    <<"T","O">>,
    <<"1">>,
    <<"a","a","p","l","X","Y">> }

RECURSIVE Concat(_)
Concat(ss) == IF ss = << >> THEN << >> ELSE Head(ss) \o Concat(Tail(ss))

Messages ==
    UNION { { Concat(cs) : cs \in [1..n -> Chunks] } : n \in 0..MaxChunks }

(***************************************************************************)
(* The clock.  Time advances by steps that put the limiter's and the       *)
(* cache's comparisons on both sides of their thresholds, and to the       *)
(* deadline of the earliest pending timer.                                 *)
(***************************************************************************)
\* the rate window and the cache ttl: 60000 ms
WindowMs == 60000

CacheTimeout == 60000

\* at most MaxTicks free advances of the clock
MaxTicks == 2

TickSteps == {1, WindowMs}

InitClock ==
    /\ now = 0
    /\ advances = 0

(***************************************************************************)
(* checkRateLimit                                                          *)
(***************************************************************************)
maxRequests == 30

Callers == {"c1", "c2"}

\* a caller: pc and wakeAt are the call's position and its timer; the rest
\* records what held when the call was made and when it returned
NoCall == [pc |-> "idle", wakeAt |-> 0, full |-> FALSE, counted |-> FALSE,
           callReset |-> 0, returnedAt |-> 0]

\* the constructor's this.rateLimit
InitRateLimit ==
    /\ rateLimit = [requests |-> 0, resetTime |-> now + WindowMs,
                    maxRequests |-> maxRequests]
    /\ caller = [c \in Callers |-> NoCall]
    /\ granted = 0

\* if (now > resetTime) { requests = 0; resetTime = now + 60000 }
RateLimitAfterExpiry(rl, t) ==
    IF t > rl.resetTime
    THEN [rl EXCEPT !.requests = 0, !.resetTime = t + WindowMs]
    ELSE rl

\* mutant: the limit test off by one
RateLimitReachedLate(rl) == rl.requests > rl.maxRequests

\* if (requests >= maxRequests)
RateLimitReached(rl) == rl.requests >= rl.maxRequests

\* mutant: no wait at all
WaitTimeNone(rl, t) == 0

\* const waitTime = resetTime - now
WaitTime(rl, t) == rl.resetTime - t

\* mutant: a resumed caller resets the window only when it is still full
RateLimitAfterWaitIfFull(rl, t) ==
    IF rl.requests >= rl.maxRequests
    THEN [rl EXCEPT !.requests = 0, !.resetTime = t + WindowMs]
    ELSE rl

\* after the await: requests = 0; resetTime = Date.now() + 60000
RateLimitAfterWait(rl, t) ==
    [rl EXCEPT !.requests = 0, !.resetTime = t + WindowMs]

\* mutant: the counter is not incremented
RateLimitNoIncrement(rl) == rl

\* this.rateLimit.requests++
RateLimitIncrement(rl) == [rl EXCEPT !.requests = @ + 1]

\* checkRateLimit from its call to its await or, when it does not wait, to
\* its end: [rl, suspended, wakeAt]
CheckRateLimitEntry(rl, t) ==
    LET rl1 == RateLimitAfterExpiry(rl, t)
    IN  IF RateLimitReached(rl1)
        THEN [rl |-> rl1, suspended |-> TRUE, wakeAt |-> t + WaitTime(rl1, t)]
        ELSE [rl |-> RateLimitIncrement(rl1), suspended |-> FALSE, wakeAt |-> 0]

\* checkRateLimit from the end of its await to its end
CheckRateLimitResume(rl, t) == RateLimitIncrement(RateLimitAfterWait(rl, t))

\* calls that returned in the window that ends at the current resetTime,
\* after a step that takes the limiter from rl to rl2 and returns from k calls
GrantedAfter(rl, rl2, k) ==
    (IF rl2.resetTime # rl.resetTime THEN 0 ELSE granted) + k

\* a caller calls checkRateLimit
RL_Call(c) ==
    /\ caller[c].pc = "idle"
    /\ advances <= MaxTicks
    /\ LET r == CheckRateLimitEntry(rateLimit, now)
       IN  /\ rateLimit' = r.rl
           /\ caller' = [caller EXCEPT ![c] =
                 [pc |-> IF r.suspended THEN "waiting" ELSE "returned",
                  wakeAt |-> r.wakeAt,
                  full |-> granted >= rateLimit.maxRequests
                           /\ now <= rateLimit.resetTime,
                  counted |-> rateLimit.requests >= rateLimit.maxRequests
                              /\ now <= rateLimit.resetTime,
                  callReset |-> rateLimit.resetTime,
                  returnedAt |-> IF r.suspended THEN 0 ELSE now]]
           /\ granted' = GrantedAfter(rateLimit, r.rl, IF r.suspended THEN 0 ELSE 1)
    /\ UNCHANGED <<extractVars, chatVars, sentimentVars, processVars, marketVars, clockVars, cacheVars, getVars>>

\* the timer of a suspended caller has fired: the call resumes and returns
RL_Resume(c) ==
    /\ caller[c].pc = "waiting"
    /\ now >= caller[c].wakeAt
    /\ rateLimit' = CheckRateLimitResume(rateLimit, now)
    /\ caller' = [caller EXCEPT ![c].pc = "returned", ![c].returnedAt = now]
    /\ granted' = GrantedAfter(rateLimit, rateLimit', 1)
    /\ UNCHANGED <<extractVars, chatVars, sentimentVars, processVars, marketVars, clockVars, cacheVars, getVars>>

\* the caller goes on; it may call again
RL_Done(c) ==
    /\ caller[c].pc = "returned"
    /\ caller' = [caller EXCEPT ![c] = NoCall]
    /\ UNCHANGED <<extractVars, chatVars, sentimentVars, processVars, marketVars, clockVars, rateLimit, granted, cacheVars, getVars>>

(***************************************************************************)
(* getCachedData                                                           *)
(***************************************************************************)
Keys == {"k1", "k2"}

\* an empty Map
EmptyMap == [k \in {} |-> 0]

\* mutant: an existing entry keeps its fields that are numbers, so that a
\* cache entry gets the new data with the old timestamp
MapSetKeepTimestamp(c, key, entry) ==
    [k \in DOMAIN c \cup {key} |->
        IF k # key THEN c[k]
        ELSE IF key \in DOMAIN c /\ "timestamp" \in DOMAIN c[key]
             THEN [entry EXCEPT !.timestamp = c[key].timestamp]
             ELSE entry]

\* map.set(key, entry)
MapSet(c, key, entry) ==
    [k \in DOMAIN c \cup {key} |-> IF k = key THEN entry ELSE c[k]]

\* the constructor's this.cache and this.stats
InitCache ==
    /\ cache = EmptyMap
    /\ stats = [totalRequests |-> 0, successfulRequests |-> 0, failedRequests |-> 0,
                cacheHits |-> 0, cacheMisses |-> 0]

\* mutant: an entry is still served when exactly cacheTimeout old
CacheHitInclusive(c, key, t) ==
    key \in DOMAIN c /\ t - c[key].timestamp <= CacheTimeout

\* cached && Date.now() - cached.timestamp < this.cacheTimeout
CacheHit(c, key, t) ==
    key \in DOMAIN c /\ t - c[key].timestamp < CacheTimeout

\* mutant: whatever the fetch produced, failure included, is stored
CacheAfterFetchAlways(c, key, outcome, value, t) ==
    MapSet(c, key, [data |-> IF outcome = "resolved" THEN value ELSE 0,
                    timestamp |-> t])

\* const data = await fetchFunction(); this.cache.set(key, {data, timestamp}):
\* a fetch that throws leaves getCachedData before the set
CacheAfterFetch(c, key, outcome, value, t) ==
    IF outcome = "resolved"
    THEN MapSet(c, key, [data |-> value, timestamp |-> t])
    ELSE c

\* at most MaxGets calls of getCachedData
MaxGets == 4

Getters == {"g1", "g2"}

\* a caller: pc, key, fetch and value are the call's position, its key, the
\* state of its fetch promise and the value the fetch produces; result is
\* what the call returned; hit, stale and seen record the entry the call
\* found, fetched whether it invoked the fetch function
NoGet == [pc |-> "idle", key |-> "none", fetch |-> "none", value |-> 0,
          result |-> 0, hit |-> FALSE, stale |-> FALSE, seen |-> 0,
          fetched |-> FALSE]

InitGetters ==
    /\ fetchSeq = 0
    /\ getter = [g \in Getters |-> NoGet]

\* getCachedData(key, fetch) up to its return (a hit) or its await (a miss);
\* the fetch function is invoked and returns the next value of its sequence
GC_Call(g, key) ==
    /\ getter[g].pc = "idle"
    /\ stats.cacheHits + stats.cacheMisses < MaxGets
    /\ LET seen == [hit |-> key \in DOMAIN cache
                              /\ now - cache[key].timestamp < CacheTimeout,
                    stale |-> key \in DOMAIN cache
                              /\ now - cache[key].timestamp >= CacheTimeout,
                    seen |-> IF key \in DOMAIN cache THEN cache[key].data ELSE 0]
       IN  IF CacheHit(cache, key, now)
           THEN /\ stats' = [stats EXCEPT !.cacheHits = @ + 1]
                /\ getter' = [getter EXCEPT ![g] =
                      [pc |-> "returned", key |-> key, fetch |-> "none", value |-> 0,
                       result |-> cache[key].data, hit |-> seen.hit,
                       stale |-> seen.stale, seen |-> seen.seen, fetched |-> FALSE]]
                /\ UNCHANGED fetchSeq
           ELSE /\ stats' = [stats EXCEPT !.cacheMisses = @ + 1]
                /\ fetchSeq' = fetchSeq + 1
                /\ getter' = [getter EXCEPT ![g] =
                      [pc |-> "fetching", key |-> key, fetch |-> "pending",
                       value |-> fetchSeq + 1, result |-> 0, hit |-> seen.hit,
                       stale |-> seen.stale, seen |-> seen.seen, fetched |-> TRUE]]
    /\ UNCHANGED <<extractVars, chatVars, sentimentVars, processVars, marketVars, clockVars, rateVars, cache>>

\* the fetch promise settles: it resolves with its value or rejects
GC_FetchSettles(g, outcome) ==
    /\ getter[g].pc = "fetching"
    /\ getter[g].fetch = "pending"
    /\ getter' = [getter EXCEPT ![g].fetch = outcome]
    /\ UNCHANGED <<extractVars, chatVars, sentimentVars, processVars, marketVars, clockVars, rateVars, cacheVars, fetchSeq>>

\* getCachedData after its await: the value is stored and returned, or the
\* fetch's error leaves the function
GC_Continue(g) ==
    /\ getter[g].pc = "fetching"
    /\ getter[g].fetch \in {"resolved", "rejected"}
    /\ cache' = CacheAfterFetch(cache, getter[g].key, getter[g].fetch,
                                getter[g].value, now)
    /\ getter' = [getter EXCEPT
          ![g].pc = IF getter[g].fetch = "resolved" THEN "returned" ELSE "failed",
          ![g].result = IF getter[g].fetch = "resolved" THEN getter[g].value
                        ELSE 0]
    /\ UNCHANGED <<extractVars, chatVars, sentimentVars, processVars, marketVars, clockVars, rateVars, stats, fetchSeq>>

\* the caller goes on; it may call again
GC_Done(g) ==
    /\ getter[g].pc \in {"returned", "failed"}
    /\ getter' = [getter EXCEPT ![g] = NoGet]
    /\ UNCHANGED <<extractVars, chatVars, sentimentVars, processVars, marketVars, clockVars, rateVars, cacheVars, fetchSeq>>

(***************************************************************************)
(* The quote client: ensureReady, getStockData, getMultipleQuotes          *)
(*                                                                         *)
(* A JavaScript value of a provider payload is a string: "undefined" for   *)
(* a field the payload omits, "0" for the number 0, any other string for   *)
(* a truthy value.                                                         *)
(***************************************************************************)
Falsy == {"undefined", "null", "0", ""}

\* a || b
Or(a, b) == IF a \in Falsy THEN b ELSE a

\* The elements a symbols array is built from: a ticker, a lower-case
\* ticker, a string of six letters, and "#42", which stands for a value
\* that is not a string (the number 42).
Elements == {"AAPL", "msft", "BADSYM", "#42"}

NonStrings == {"#42"}

\* symbol.toUpperCase(); a TypeError for a value that is not a string
SymToUpperCase(sym) == IF sym = "msft" THEN "MSFT" ELSE sym

\* `quote_${symbol}`
QuoteKey(sym) == "quote_" \o sym

\* the filter callback of getMultipleQuotes' validSymbols
IsFetchable(sym) ==
    /\ ~(sym \in Falsy \/ sym \in NonStrings)
    /\ ~(Len(sym) < 1 \/ Len(sym) > 5)

\* what yf.quote resolves with for one symbol: every field present, or
\* only the symbol
Payload(kind, upperSym) ==
    IF kind = "full"
    THEN [symbol |-> upperSym, shortName |-> upperSym, longName |-> upperSym,
          regularMarketPrice |-> "100", regularMarketChange |-> "1",
          regularMarketChangePercent |-> "1", regularMarketVolume |-> "1000",
          regularMarketDayHigh |-> "101", regularMarketDayLow |-> "99",
          regularMarketOpen |-> "100", regularMarketPreviousClose |-> "99",
          marketCap |-> "5000", fiftyTwoWeekHigh |-> "120",
          fiftyTwoWeekLow |-> "80", averageVolume |-> "900", bid |-> "100",
          ask |-> "100", bidSize |-> "1", askSize |-> "1", trailingPE |-> "20",
          forwardPE |-> "18", dividendYield |-> "2", currency |-> "USD",
          exchange |-> "NMS"]
    ELSE [symbol |-> upperSym, shortName |-> "undefined", longName |-> "undefined",
          regularMarketPrice |-> "undefined", regularMarketChange |-> "undefined",
          regularMarketChangePercent |-> "undefined",
          regularMarketVolume |-> "undefined", regularMarketDayHigh |-> "undefined",
          regularMarketDayLow |-> "undefined", regularMarketOpen |-> "undefined",
          regularMarketPreviousClose |-> "undefined", marketCap |-> "undefined",
          fiftyTwoWeekHigh |-> "undefined", fiftyTwoWeekLow |-> "undefined",
          averageVolume |-> "undefined", bid |-> "undefined", ask |-> "undefined",
          bidSize |-> "undefined", askSize |-> "undefined",
          trailingPE |-> "undefined", forwardPE |-> "undefined",
          dividendYield |-> "undefined", currency |-> "undefined",
          exchange |-> "undefined"]

\* yf.quote also resolves without a quote when it finds none for the
\* symbol: undefined for one symbol, an empty array for an array
PayloadKinds == {"full", "sparse", "absent"}

\* the messages of the errors: of the provider's rejection, of reading a
\* field of undefined, of calling toUpperCase on a number, and of
\* ensureReady
ProviderErrorText == "Request failed"
UndefinedQuoteText == "Cannot read properties of undefined"
NotAFunctionText == "symbol.toUpperCase is not a function"
ReadyErrorText == "Yahoo Finance module failed to initialize"

\* a generic message
ErrorMessageGeneric(sym, text) == "Failed to fetch data"

\* `Failed to fetch data for ${symbol}: ${error.message}`
ErrorMessage(sym, text) == "Failed to fetch data for " \o sym \o ": " \o text

\* the fetch function of getStockData throws: yf.quote rejected, or
\* resolved with undefined
FetchThrows(wr) ==
    \/ wr.fetch = "rejected"
    \/ wr.fetch = "resolved" /\ wr.kind = "absent"

\* the object getStockData's fetch function returns
NormalizeQuote(quote, sym, t) ==
    [symbol |-> quote.symbol,
     name |-> Or(Or(quote.shortName, quote.longName), sym),
     price |-> Or(quote.regularMarketPrice, "0"),
     change |-> Or(quote.regularMarketChange, "0"),
     changePercent |-> Or(quote.regularMarketChangePercent, "0"),
     volume |-> Or(quote.regularMarketVolume, "0"),
     high |-> Or(quote.regularMarketDayHigh, quote.regularMarketPrice),
     low |-> Or(quote.regularMarketDayLow, quote.regularMarketPrice),
     open |-> Or(quote.regularMarketOpen, quote.regularMarketPrice),
     previousClose |-> Or(quote.regularMarketPreviousClose, quote.regularMarketPrice),
     marketCap |-> Or(quote.marketCap, "0"),
     fiftyTwoWeekHigh |-> Or(quote.fiftyTwoWeekHigh, "0"),
     fiftyTwoWeekLow |-> Or(quote.fiftyTwoWeekLow, "0"),
     averageVolume |-> Or(quote.averageVolume, "0"),
     bid |-> Or(quote.bid, "0"),
     ask |-> Or(quote.ask, "0"),
     bidSize |-> Or(quote.bidSize, "0"),
     askSize |-> Or(quote.askSize, "0"),
     pe |-> Or(quote.trailingPE, "null"),
     forwardPE |-> Or(quote.forwardPE, "null"),
     dividendYield |-> Or(quote.dividendYield, "null"),
     currency |-> Or(quote.currency, "USD"),
     exchange |-> Or(quote.exchange, "N/A"),
     timestamp |-> t,
     source |-> "yahoo-finance"]

\* the arrays getMultipleQuotes is called with
SymbolLists ==
    { << >>, <<"AAPL", "BADSYM", "AAPL">>, <<"msft", "#42">>, <<"#42">> }

\* at most MaxRequests quote requests are started
MaxRequests == 1

Workers == {"w1"}

\* A request handler.  op is the method it called ("multi":
\* getMultipleQuotes, "single": getStockData) and pc its position in it;
\* symbols, valid, i, results are getMultipleQuotes' symbols, validSymbols,
\* loop position and results; sym is getStockData's symbol; wakeAt its
\* timer; fetch, kind the state of the provider call it awaits and the
\* payload the provider answers with; data what getCachedData returned;
\* result and failed what the method returned or that it threw.
\* upstream is the message of the error the awaited call threw, error the
\* message of the error getStockData threw last.
\* message, extracted are getRelevantMarketData's message and symbols
\* ("relevant" is its op); ctx tells whether it returned null or an object,
\* whose fields are relevantData and extractedSymbols.
\* body, chatHistory, aiResponse are sendMessage's req.body, chatHistory
\* and aiResponse ("chat" is its op); llm is the state of the language
\* model's call, threw whether an error reached sendMessage's catch, and
\* replies the calls of res.json, each with its status and body; llmCalls
\* counts the calls of the language model.
\* batchFailed, outcomes, provCalls and slots record, for the request,
\* whether the batched call failed, how each getStockData of the fallback
\* ended, the provider calls made and the rate-limiter slots taken.
IdleWorker ==
    [op |-> "none", pc |-> "idle", symbols |-> << >>, valid |-> << >>, i |-> 0,
     results |-> << >>, sym |-> "none", wakeAt |-> 0, fetch |-> "none",
     kind |-> "none", data |-> << >>, result |-> << >>, failed |-> FALSE,
     upstream |-> "none", error |-> "none",
     body |-> [userId |-> "undefined", message |-> [type |-> "undefined", chars |-> << >>]],
     chatHistory |-> << >>, llm |-> "none", llmCalls |-> 0,
     aiResponse |-> << >>, threw |-> FALSE, replies |-> << >>,
     message |-> << >>, extracted |-> << >>, ctx |-> "none",
     relevantData |-> << >>, extractedSymbols |-> << >>,
     batchFailed |-> FALSE, outcomes |-> << >>, provCalls |-> 0, slots |-> 0,
     params |-> "none", escaped |-> "none", after |-> {}, parts |-> << >>]

\* module load: let yahooFinance = null; this.ready = initYahooFinance()
InitMarket ==
    /\ yahooFinance = "null"
    /\ initPromise = "pending"
    /\ worker = [w \in Workers |-> IdleWorker]
    /\ started = 0

\* import('yahoo-finance2') resolves and one of the export patterns fits
LoadSucceeds ==
    /\ initPromise = "pending"
    /\ yahooFinance' = "module"
    /\ initPromise' = "fulfilled"
    /\ UNCHANGED <<extractVars, chatVars, sentimentVars, processVars, clockVars, rateVars, cacheVars, getVars, worker, started>>

\* the import fails, or no export pattern fits: the error is rethrown
LoadFails ==
    /\ initPromise = "pending"
    /\ initPromise' = "rejected"
    /\ UNCHANGED <<extractVars, chatVars, sentimentVars, processVars, clockVars, rateVars, cacheVars, getVars,
                   yahooFinance, worker, started>>

\* ensureReady's await this.ready has settled (or was not needed)
ReadySettled == yahooFinance # "null" \/ initPromise # "pending"

\* mutant: ensureReady never throws
ReadyFailsNever == FALSE

\* ensureReady throws
ReadyFails == yahooFinance = "null"

RECURSIVE Str(_)
\* the string of a sequence of characters
Str(chars) == IF chars = << >> THEN "" ELSE Head(chars) \o Str(Tail(chars))

\* the messages getRelevantMarketData is called with: only stopwords, a
\* lower-case ticker, two tickers
RelevantMessages ==
    { <<"i","s"," ","t","h","e">>, <<"a","a","p","l">>, <<"A"," ","b">> }

\* this.extractSymbolsFromMessage(message), as an array of strings
ExtractedSymbols(msg) ==
    LET syms == extractSymbolsFromMessage(msg)
    IN  [k \in DOMAIN syms |-> Str(syms[k])]

\* an extraction that never counts as empty
NoSymbolsNever(symbols) == FALSE

\* symbols.length === 0
NoSymbols(symbols) == Len(symbols) = 0

\* where getMultipleQuotes returns to: its caller's handler, or
\* getRelevantMarketData
ReturnPc(wr) == IF wr.op \in {"relevant", "chat"} THEN "rm_return" ELSE "done"

\* where getRelevantMarketData returns to: its caller's handler, or
\* sendMessage, which calls generateResponse next
AfterRelevantPc(wr) == IF wr.op = "chat" THEN "ai_start" ELSE "done"

\* getRelevantMarketData(msg) up to its first await or its return of null,
\* in the handler wr
BeginRelevant(wr, msg) ==
    LET symbols == ExtractedSymbols(msg)
    IN  IF NoSymbols(symbols)
        THEN [wr EXCEPT !.pc = AfterRelevantPc(wr), !.message = msg,
                        !.extracted = symbols, !.ctx = "null"]
        ELSE [wr EXCEPT !.pc = "mq_ready", !.message = msg,
                        !.extracted = symbols, !.symbols = symbols]

\* a filter result that never counts as empty
NoValidSymbolsNever(valid) == FALSE

\* validSymbols.length === 0
NoValidSymbols(valid) == Len(valid) = 0

\* a fallback that walks the filtered array
FallbackValidOnly(wr) == wr.valid

\* for (const symbol of symbols): the array the fallback walks
FallbackSymbols(wr) == wr.symbols

\* getStockData ends, with a quote or by throwing: a top-level call is done;
\* in getMultipleQuotes' fallback a quote is pushed, an error is logged, and
\* the loop goes on
EndStockData(wr, ok, quote) ==
    IF wr.op \in {"single", "market", "detailed"}
    THEN [wr EXCEPT !.pc = IF wr.op = "market" THEN "md_return" ELSE "done",
                    !.result = IF ok THEN <<quote>> ELSE << >>,
                    !.failed = ~ok]
    ELSE [wr EXCEPT !.pc = "fb_next", !.i = @ + 1,
                    !.results = IF ok THEN Append(@, quote) ELSE @,
                    !.outcomes = Append(@, [symbol |-> wr.sym, ok |-> ok,
                                            quote |-> IF ok THEN <<quote>> ELSE << >>])]

\* the handlers that have finished their request
DoneWorkers == {x \in DOMAIN worker : worker[x].pc = "done"}

\* a handler calls getStockData(sym): totalRequests++, then await
\* ensureReady(); at most limit requests are made
StartSingleUpTo(w, sym, limit) ==
    /\ worker[w].pc = "idle"
    /\ started < limit
    /\ advances <= MaxTicks
    /\ started' = started + 1
    /\ stats' = [stats EXCEPT !.totalRequests = @ + 1]
    /\ worker' = [worker EXCEPT ![w] =
          [IdleWorker EXCEPT !.op = "single", !.pc = "sd_ready", !.sym = sym,
                             !.after = DoneWorkers]]
    /\ UNCHANGED <<extractVars, chatVars, sentimentVars, processVars, clockVars, rateVars, cache, getVars,
                   yahooFinance, initPromise>>

StartSingle(w, sym) == StartSingleUpTo(w, sym, MaxRequests)

\* a handler calls getMultipleQuotes(symbols): await ensureReady(); at most
\* limit requests are made
StartMultiUpTo(w, symbols, limit) ==
    /\ worker[w].pc = "idle"
    /\ started < limit
    /\ advances <= MaxTicks
    /\ started' = started + 1
    /\ worker' = [worker EXCEPT ![w] =
          [IdleWorker EXCEPT !.op = "multi", !.pc = "mq_ready", !.symbols = symbols,
                             !.after = DoneWorkers]]
    /\ UNCHANGED <<extractVars, chatVars, sentimentVars, processVars, clockVars, rateVars, cacheVars, getVars,
                   yahooFinance, initPromise>>

StartMulti(w, symbols) == StartMultiUpTo(w, symbols, MaxRequests)

\* mutant: getStockData goes to the cache without the limiter
StockDataNoRateLimit(rl, t) == [rl |-> rl, suspended |-> FALSE, wakeAt |-> 0]

\* getStockData: await this.checkRateLimit(), before getCachedData
StockDataRateLimit(rl, t) == CheckRateLimitEntry(rl, t)

\* getStockData after ensureReady: its error goes to the catch
\* (failedRequests++, rethrown); otherwise checkRateLimit is entered
SD_Ready(w) ==
    /\ worker[w].pc = "sd_ready"
    /\ ReadySettled
    /\ IF ReadyFails
       THEN /\ stats' = [stats EXCEPT !.failedRequests = @ + 1]
            /\ worker' = [worker EXCEPT ![w] =
                  EndStockData([@ EXCEPT !.error = ErrorMessage(worker[w].sym,
                                                                ReadyErrorText)],
                               FALSE, << >>)]
            /\ UNCHANGED <<rateLimit, granted>>
       ELSE LET r == StockDataRateLimit(rateLimit, now)
            IN  /\ rateLimit' = r.rl
                /\ granted' = GrantedAfter(rateLimit, r.rl, IF r.suspended THEN 0 ELSE 1)
                /\ worker' = [worker EXCEPT
                      ![w].pc = IF r.suspended THEN "sd_wait" ELSE "sd_granted",
                      ![w].wakeAt = r.wakeAt,
                      ![w].slots = IF r.suspended THEN @ ELSE @ + 1]
                /\ UNCHANGED stats
    /\ UNCHANGED <<extractVars, chatVars, sentimentVars, processVars, clockVars, caller, cache, getVars,
                   yahooFinance, initPromise, started>>

\* getStockData's checkRateLimit resumes after its timer
SD_Resume(w) ==
    /\ worker[w].pc = "sd_wait"
    /\ now >= worker[w].wakeAt
    /\ rateLimit' = CheckRateLimitResume(rateLimit, now)
    /\ granted' = GrantedAfter(rateLimit, rateLimit', 1)
    /\ worker' = [worker EXCEPT ![w].pc = "sd_granted", ![w].slots = @ + 1]
    /\ UNCHANGED <<extractVars, chatVars, sentimentVars, processVars, clockVars, caller, cacheVars, getVars,
                   yahooFinance, initPromise, started>>

\* getStockData calls getCachedData(`quote_${symbol}`, fetch): a hit returns
\* the stored quote; a miss runs the fetch function, which calls
\* yf.quote(symbol.toUpperCase()), or throws at toUpperCase
SD_Lookup(w) ==
    /\ worker[w].pc = "sd_granted"
    /\ LET key == QuoteKey(worker[w].sym)
       IN  IF CacheHit(cache, key, now)
           THEN /\ stats' = [stats EXCEPT !.cacheHits = @ + 1]
                /\ worker' = [worker EXCEPT ![w].pc = "sd_return",
                                            ![w].data = <<cache[key].data>>]
           ELSE /\ stats' = [stats EXCEPT !.cacheMisses = @ + 1]
                /\ worker' = [worker EXCEPT
                      ![w].pc = "sd_fetch",
                      ![w].fetch = IF worker[w].sym \in NonStrings
                                   THEN "rejected" ELSE "pending",
                      ![w].upstream = IF worker[w].sym \in NonStrings
                                      THEN NotAFunctionText ELSE "none",
                      ![w].provCalls = IF worker[w].sym \in NonStrings
                                       THEN @ ELSE @ + 1]
    /\ UNCHANGED <<extractVars, chatVars, sentimentVars, processVars, clockVars, rateVars, cache, getVars,
                   yahooFinance, initPromise, started>>

\* the provider answers a quote call: with a payload, or with an error
ProviderSettles(w, outcome, kind) ==
    /\ worker[w].pc \in {"sd_fetch", "mq_fetch"}
    /\ worker[w].fetch = "pending"
    /\ worker' = [worker EXCEPT ![w].fetch = outcome,
                                ![w].kind = IF outcome = "resolved" THEN kind ELSE "none",
                                ![w].upstream = IF outcome = "resolved" THEN "none"
                                                ELSE ProviderErrorText]
    /\ UNCHANGED <<extractVars, chatVars, sentimentVars, processVars, clockVars, rateVars, cacheVars, getVars,
                   yahooFinance, initPromise, started>>

\* after await yf.quote: successfulRequests++, the quote is normalized,
\* stored by getCachedData and returned; or the error reaches the catch
SD_Fetched(w) ==
    /\ worker[w].pc = "sd_fetch"
    /\ worker[w].fetch \in {"resolved", "rejected"}
    /\ LET sym == worker[w].sym
           throws == FetchThrows(worker[w])
           text == IF worker[w].fetch = "rejected" THEN worker[w].upstream
                   ELSE UndefinedQuoteText
           quote == IF throws THEN << >>
                    ELSE NormalizeQuote(Payload(worker[w].kind, SymToUpperCase(sym)),
                                        sym, now)
       IN  /\ cache' = CacheAfterFetch(cache, QuoteKey(sym),
                                       IF throws THEN "rejected" ELSE "resolved",
                                       quote, now)
           /\ IF ~throws
              THEN /\ stats' = [stats EXCEPT !.successfulRequests = @ + 1]
                   /\ worker' = [worker EXCEPT ![w].pc = "sd_return",
                                               ![w].fetch = "none",
                                               ![w].data = <<quote>>]
              ELSE /\ stats' = [stats EXCEPT !.failedRequests = @ + 1]
                   /\ worker' = [worker EXCEPT ![w] =
                         EndStockData([@ EXCEPT !.fetch = "none",
                                                !.error = ErrorMessage(sym, text)],
                                      FALSE, << >>)]
    /\ UNCHANGED <<extractVars, chatVars, sentimentVars, processVars, clockVars, rateVars, getVars,
                   yahooFinance, initPromise, started>>

\* getStockData returns the quote
SD_Return(w) ==
    /\ worker[w].pc = "sd_return"
    /\ worker' = [worker EXCEPT ![w] =
          EndStockData([@ EXCEPT !.data = << >>], TRUE, worker[w].data[1])]
    /\ UNCHANGED <<extractVars, chatVars, sentimentVars, processVars, clockVars, rateVars, cacheVars, getVars,
                   yahooFinance, initPromise, started>>

\* getMultipleQuotes after ensureReady: its error goes to the catch (the
\* fallback); otherwise the symbols are filtered, an empty validSymbols
\* returns [], and checkRateLimit is entered
MQ_Ready(w) ==
    /\ worker[w].pc = "mq_ready"
    /\ ReadySettled
    /\ IF ReadyFails
       THEN /\ worker' = [worker EXCEPT ![w].pc = "fb_next", ![w].i = 1]
            /\ UNCHANGED <<rateLimit, granted>>
       ELSE LET valid == SelectSeq(worker[w].symbols, IsFetchable)
                r == CheckRateLimitEntry(rateLimit, now)
            IN  IF NoValidSymbols(valid)
                THEN /\ worker' = [worker EXCEPT ![w].pc = ReturnPc(worker[w]),
                                                 ![w].valid = valid,
                                                 ![w].result = << >>]
                     /\ UNCHANGED <<rateLimit, granted>>
                ELSE /\ rateLimit' = r.rl
                     /\ granted' = GrantedAfter(rateLimit, r.rl,
                                                IF r.suspended THEN 0 ELSE 1)
                     /\ worker' = [worker EXCEPT
                           ![w].pc = IF r.suspended THEN "mq_wait" ELSE "mq_granted",
                           ![w].valid = valid,
                           ![w].wakeAt = r.wakeAt,
                           ![w].slots = IF r.suspended THEN @ ELSE @ + 1]
    /\ UNCHANGED <<extractVars, chatVars, sentimentVars, processVars, clockVars, caller, cacheVars, getVars,
                   yahooFinance, initPromise, started>>

\* getMultipleQuotes' checkRateLimit resumes after its timer
MQ_Resume(w) ==
    /\ worker[w].pc = "mq_wait"
    /\ now >= worker[w].wakeAt
    /\ rateLimit' = CheckRateLimitResume(rateLimit, now)
    /\ granted' = GrantedAfter(rateLimit, rateLimit', 1)
    /\ worker' = [worker EXCEPT ![w].pc = "mq_granted", ![w].slots = @ + 1]
    /\ UNCHANGED <<extractVars, chatVars, sentimentVars, processVars, clockVars, caller, cacheVars, getVars,
                   yahooFinance, initPromise, started>>

\* yf.quote(validSymbols.map(s => s.toUpperCase())) is called
MQ_Batch(w) ==
    /\ worker[w].pc = "mq_granted"
    /\ worker' = [worker EXCEPT ![w].pc = "mq_fetch", ![w].fetch = "pending",
                                ![w].provCalls = @ + 1]
    /\ UNCHANGED <<extractVars, chatVars, sentimentVars, processVars, clockVars, rateVars, cacheVars, getVars,
                   yahooFinance, initPromise, started>>

\* after await yf.quote: the provider's quotes are returned as they are; or
\* the error reaches the catch, which starts the fallback
MQ_Fetched(w) ==
    /\ worker[w].pc = "mq_fetch"
    /\ worker[w].fetch \in {"resolved", "rejected"}
    /\ IF worker[w].fetch = "resolved"
       THEN worker' = [worker EXCEPT
               ![w].pc = ReturnPc(worker[w]), ![w].fetch = "none",
               ![w].result = IF worker[w].kind = "absent" THEN << >>
                             ELSE [k \in DOMAIN worker[w].valid |->
                                     Payload(worker[w].kind,
                                             SymToUpperCase(worker[w].valid[k]))]]
       ELSE worker' = [worker EXCEPT ![w].pc = "fb_next", ![w].fetch = "none",
                                     ![w].i = 1, ![w].batchFailed = TRUE]
    /\ UNCHANGED <<extractVars, chatVars, sentimentVars, processVars, clockVars, rateVars, cacheVars, getVars,
                   yahooFinance, initPromise, started>>

\* the fallback loop: getStockData(symbol) for the next symbol
\* (totalRequests++, await ensureReady()), or return results
FB_Next(w) ==
    /\ worker[w].pc = "fb_next"
    /\ IF worker[w].i <= Len(FallbackSymbols(worker[w]))
       THEN /\ stats' = [stats EXCEPT !.totalRequests = @ + 1]
            /\ worker' = [worker EXCEPT
                  ![w].pc = "sd_ready",
                  ![w].sym = FallbackSymbols(worker[w])[worker[w].i]]
       ELSE /\ worker' = [worker EXCEPT ![w].pc = ReturnPc(worker[w]),
                                        ![w].result = worker[w].results]
            /\ UNCHANGED stats
    /\ UNCHANGED <<extractVars, chatVars, sentimentVars, processVars, clockVars, rateVars, cache, getVars,
                   yahooFinance, initPromise, started>>

\* a handler calls getRelevantMarketData(message): the symbols are
\* extracted; with none it returns null, otherwise it calls
\* getMultipleQuotes(symbols), which awaits ensureReady()
StartRelevant(w, msg) ==
    /\ worker[w].pc = "idle"
    /\ started < MaxRequests
    /\ advances <= MaxTicks
    /\ started' = started + 1
    /\ worker' = [worker EXCEPT ![w] =
          BeginRelevant([IdleWorker EXCEPT !.op = "relevant"], msg)]
    /\ UNCHANGED <<extractVars, chatVars, sentimentVars, processVars, clockVars, rateVars, cacheVars, getVars,
                   yahooFinance, initPromise>>

\* getRelevantMarketData after await getMultipleQuotes: the object with
\* relevantData and extractedSymbols; null from the catch
RM_Return(w) ==
    /\ worker[w].pc = "rm_return"
    /\ worker' = [worker EXCEPT ![w] =
          IF worker[w].failed
          THEN [@ EXCEPT !.pc = AfterRelevantPc(worker[w]), !.ctx = "null", !.failed = FALSE]
          ELSE [@ EXCEPT !.pc = AfterRelevantPc(worker[w]), !.ctx = "object",
                         !.relevantData = worker[w].result,
                         !.extractedSymbols = worker[w].extracted]]
    /\ UNCHANGED <<extractVars, chatVars, sentimentVars, processVars, clockVars, rateVars, cacheVars, getVars,
                   yahooFinance, initPromise, started>>

\* the handler has its answer and is free for the next request
Finish(w) ==
    /\ worker[w].pc = "done"
    /\ worker' = [worker EXCEPT ![w] = IdleWorker]
    /\ UNCHANGED <<extractVars, chatVars, sentimentVars, processVars, clockVars, rateVars, cacheVars, getVars,
                   yahooFinance, initPromise, started>>

\* searchStocks(query) by another client, before the quote requests and
\* while the limiter has room: ensureReady, checkRateLimit (requests++),
\* yf.search
SearchStocks ==
    /\ yahooFinance # "null"
    /\ started = 0
    /\ advances = 0
    /\ LET r == CheckRateLimitEntry(rateLimit, now)
       IN  /\ ~r.suspended
           /\ rateLimit' = r.rl
           /\ granted' = GrantedAfter(rateLimit, r.rl, 1)
    /\ UNCHANGED <<extractVars, chatVars, sentimentVars, processVars, clockVars, caller, cacheVars, getVars, marketVars>>

(***************************************************************************)
(* The clock's actions                                                     *)
(***************************************************************************)
\* time passes
Tick(d) ==
    /\ advances < MaxTicks
    /\ now' = now + d
    /\ advances' = advances + 1
    /\ UNCHANGED <<extractVars, chatVars, sentimentVars, processVars, marketVars, rateVars, cacheVars, getVars>>

PendingTimers ==
    {caller[c].wakeAt : c \in {x \in Callers : caller[x].pc = "waiting"}}
    \cup {worker[w].wakeAt :
             w \in {x \in DOMAIN worker :
                        worker[x].pc \in {"sd_wait", "mq_wait", "dt_wait", "ls_wait"}}}

\* time passes up to the deadline of the earliest pending timer
Elapse ==
    /\ PendingTimers # {}
    /\ \A w \in PendingTimers : w > now
    /\ now' = CHOOSE w \in PendingTimers : \A v \in PendingTimers : w <= v
    /\ advances' = advances + 1
    /\ UNCHANGED <<extractVars, chatVars, sentimentVars, processVars, marketVars, rateVars, cacheVars, getVars>>

(***************************************************************************)
(* calculateMarketSentiment.  Change percents are integers, in tenths of   *)
(* a percent; the mean is kept as its sum and its count, and compared      *)
(* with a threshold by multiplying the threshold with the count.           *)
(***************************************************************************)
\* tenths of a percent in one percent
Scale == 10

\* the change percents of the bounded lists, in tenths of a percent
ChangeValues == {-20, -10, -6, -5, 0, 5, 6, 10, 20}

\* an index quote: it has regularMarketChangePercent, or changePercent, or
\* a regularMarketChangePercent of 0 and changePercent, or neither
IndexQuotes ==
    {[regularMarketChangePercent |-> v] : v \in ChangeValues}
    \cup {[changePercent |-> v] : v \in ChangeValues}
    \cup {[regularMarketChangePercent |-> 0, changePercent |-> v] : v \in ChangeValues}
    \cup {<< >>}

\* the longest list
MaxQuotes == 2

\* the arguments: no list (<< >>), or a list (<<list>>) of up to MaxQuotes
SentimentArguments ==
    {<< >>} \cup UNION { {<<l>> : l \in [1..n -> IndexQuotes]} : n \in 0..MaxQuotes }

\* data.regularMarketChangePercent || data.changePercent || 0
ChangeOf(data) ==
    IF "regularMarketChangePercent" \in DOMAIN data
       /\ data["regularMarketChangePercent"] # 0
    THEN data["regularMarketChangePercent"]
    ELSE IF "changePercent" \in DOMAIN data /\ data["changePercent"] # 0
    THEN data["changePercent"]
    ELSE 0

RECURSIVE Reduce(_, _)
\* marketData.reduce((sum, data) => sum + change, 0) from position k
Reduce(list, k) ==
    IF k > Len(list) THEN 0 ELSE ChangeOf(list[k]) + Reduce(list, k + 1)

\* a comparison that includes its bound
AvgAboveOrAt(sum, n, t) == sum >= t * n

\* avgChange > t and avgChange < t, for avgChange = sum / n and a threshold
\* t in tenths of a percent
AvgAbove(sum, n, t) == sum > t * n
AvgBelow(sum, n, t) == sum < t * n

\* calculateMarketSentiment(marketData)
calculateMarketSentiment(arg) ==
    IF arg = << >> \/ Len(arg[1]) = 0 THEN "neutral"
    ELSE LET sum == Reduce(arg[1], 1)
             n == Len(arg[1])
         IN  IF AvgAbove(sum, n, Scale) THEN "bullish"
             ELSE IF AvgAbove(sum, n, Scale \div 2) THEN "moderately-bullish"
             ELSE IF AvgBelow(sum, n, -Scale) THEN "bearish"
             ELSE IF AvgBelow(sum, n, -(Scale \div 2)) THEN "moderately-bearish"
             ELSE "neutral"

InitSentiment ==
    /\ marketData = << >>
    /\ sentiment = "none"

\* a caller calls calculateMarketSentiment(marketData)
Calculate ==
    /\ sentiment = "none"
    /\ sentiment' = calculateMarketSentiment(marketData)
    /\ UNCHANGED <<extractVars, chatVars, marketData, processVars, marketVars,
                   clockVars, rateVars, cacheVars, getVars>>

(***************************************************************************)
(* The chat controller's and the AI service's state                        *)
(***************************************************************************)
\* const chatHistoryStore = new Map(); the AI service without a model
InitChat ==
    /\ chatHistoryStore = EmptyMap
    /\ isGeminiActive = FALSE

\* the users that send requests
Users == {"u1"}

\* message.length > 5000
MaxMessageLen == 5000

\* this.getChatHistory(userId, 5)
ContextLen == 5

\* history.length > 100, history.slice(-100)
HistoryLimit == 100

\* The value of req.body.message: a string, nothing, or a number (42)
StringValue(chars) == [type |-> "string", chars |-> chars]
MissingValue == [type |-> "undefined", chars |-> << >>]
NumberValue == [type |-> "number", chars |-> << >>]

\* a message of 5001 characters
LongMessage == [k \in 1..(MaxMessageLen + 1) |-> "a"]

\* the messages that pass validation: only stopwords; a ticker and the
\* word the reply's type is taken from
ChatTexts ==
    { <<"i","s"," ","t","h","e">>, <<"c"," ","p","r","i","c","e">> }

\* the request bodies: a missing userId; a missing message, a number, the
\* empty string, a blank string, a message that is too long; valid ones
Bodies ==
    {[userId |-> "undefined", message |-> StringValue(<<"i","s"," ","t","h","e">>)]}
    \cup {[userId |-> u, message |-> v] :
             u \in Users,
             v \in {MissingValue, NumberValue, StringValue(<< >>),
                    StringValue(<<" "," ">>), StringValue(LongMessage)}
                   \cup {StringValue(t) : t \in ChatTexts}}

\* !message
NotValue(v) == v.type = "undefined" \/ (v.type = "string" /\ Len(v.chars) = 0)

\* white space, as trim() removes it
IsSpace(c) == c \in {" ", "\t", "\n"}

RECURSIVE TrimStart(_)
TrimStart(chars) ==
    IF Len(chars) > 0 /\ IsSpace(Head(chars)) THEN TrimStart(Tail(chars)) ELSE chars

RECURSIVE TrimEnd(_)
TrimEnd(chars) ==
    IF Len(chars) > 0 /\ IsSpace(chars[Len(chars)])
    THEN TrimEnd(SubSeq(chars, 1, Len(chars) - 1)) ELSE chars

\* message.trim()
Trim(chars) == TrimEnd(TrimStart(chars))

\* a blank test that only knows the empty string
IsBlankOnlyEmpty(chars) == Len(chars) = 0

\* message.trim().length === 0
IsBlank(chars) == Len(Trim(chars)) = 0

\* the error sendMessage's validation answers with, "none" when it passes
ValidationError(body) ==
    IF body.userId \in Falsy \/ NotValue(body.message)
    THEN "UserId and message are required"
    ELSE IF body.message.type # "string" \/ IsBlank(body.message.chars)
    THEN "Message must be a non-empty string"
    ELSE IF Len(body.message.chars) > MaxMessageLen
    THEN "Message too long (max 5000 characters)"
    ELSE "none"

\* history.slice(-n)
LastN(seq, n) ==
    IF Len(seq) <= n THEN seq ELSE SubSeq(seq, Len(seq) - n + 1, Len(seq))

\* getChatHistory: the store after it, and what it returns
StoreAfterGet(store, userId) ==
    IF userId \in DOMAIN store THEN store ELSE MapSet(store, userId, << >>)

getChatHistory(store, userId, limit) == LastN(StoreAfterGet(store, userId)[userId], limit)

\* mutant: addToHistory without the limit
addToHistoryUnlimited(store, userId, msg, response) ==
    LET store1 == StoreAfterGet(store, userId)
    IN  MapSet(store1, userId,
               store1[userId] \o <<[role |-> "user", content |-> msg],
                                   [role |-> "assistant", content |-> response]>>)

\* addToHistory: the store after it
addToHistory(store, userId, msg, response) ==
    LET store1 == StoreAfterGet(store, userId)
        history == store1[userId] \o <<[role |-> "user", content |-> msg],
                                       [role |-> "assistant", content |-> response]>>
    IN  MapSet(store1, userId,
               IF Len(history) > HistoryLimit THEN LastN(history, HistoryLimit)
               ELSE history)

\* String.prototype.toLowerCase
LowerOf == [c \in Range(UpperLetters) |->
               LowerLetters[CHOOSE i \in DOMAIN UpperLetters : UpperLetters[i] = c]]

ToLowerCase(chars) ==
    [k \in DOMAIN chars |-> IF chars[k] \in UpperSet THEN LowerOf[chars[k]] ELSE chars[k]]

\* String.prototype.includes
Includes(chars, word) ==
    \E k \in 1..(Len(chars) - Len(word) + 1) :
        SubSeq(chars, k, k + Len(word) - 1) = word

\* determineMessageType(message)
determineMessageType(chars) ==
    LET lower == ToLowerCase(chars)
    IN  IF Includes(lower, <<"p","r","i","c","e">>)
           \/ Includes(lower, <<"q","u","o","t","e">>) THEN "stock_quote"
        ELSE IF Includes(lower, <<"m","a","r","k","e","t">>)
                \/ Includes(lower, <<"s","u","m","m","a","r","y">>) THEN "market_data"
        ELSE IF Includes(lower, <<"a","n","a","l","y","z","e">>)
                \/ Includes(lower, <<"a","n","a","l","y","s","i","s">>) THEN "analysis"
        ELSE "text"

\* context.marketContext && context.marketContext.relevantData &&
\* context.marketContext.relevantData.length > 0
HasQuotes(wr) == wr.ctx = "object" /\ Len(wr.relevantData) > 0

\* what model.generateContent does: it answers with a text, with an empty
\* text, or fails with a 429 / quota error or with another error
LLMOutcomes == {"text", "empty", "error429", "error"}

\* generateGeminiResponse throws: generateContent rejected, or the text is
\* empty
GeminiThrows(outcome) == outcome # "text"

\* The replies of generateResponse.  text stands for the reply's text;
\* marketData is "context" for context.marketContext and "undefined" when
\* the reply has no such field.
GeminiResponse(wr) ==
    [text |-> "gemini text", type |-> determineMessageType(wr.message),
     marketData |-> "context", source |-> "gemini"]

MockResponse(wr) ==
    [text |-> "mock text", type |-> "text", marketData |-> "undefined",
     source |-> "mock"]

FormattedResponse(wr) ==
    IF HasQuotes(wr)
    THEN [text |-> "quote of " \o Or(wr.relevantData[1].symbol, "N/A"),
          type |-> "stock_quote", marketData |-> "context", source |-> "formatted"]
    ELSE MockResponse(wr)

\* a catch that answers a failed generateGeminiResponse with the mock
ResponseAfterGeminiMock(outcome, wr) ==
    IF GeminiThrows(outcome) THEN MockResponse(wr) ELSE GeminiResponse(wr)

\* generateResponse from the end of await this.generateGeminiResponse: its
\* reply, or from the catch the formatted reply
ResponseAfterGemini(outcome, wr) ==
    IF GeminiThrows(outcome) THEN FormattedResponse(wr) ELSE GeminiResponse(wr)

\* a handler in which a failure of the language model escapes
ThrownOnLLMFailure(wr) == wr.llm \notin {"none", "text"}

\* an error has reached the catch of sendMessage
Thrown(wr) == wr.threw

\* the body of res.json(...) after a reply of generateResponse
ReplyBody(wr, historyLength) ==
    [success |-> TRUE, response |-> wr.aiResponse[1].text,
     type |-> Or(wr.aiResponse[1].type, "text"),
     marketData |-> Or(wr.aiResponse[1].marketData, "null"),
     hasMarketContext |-> wr.ctx = "object",
     historyLength |-> historyLength,
     error |-> "none"]

\* the bodies of the error replies
ErrorBody(text) ==
    [success |-> FALSE, response |-> "none", type |-> "none", marketData |-> "none",
     hasMarketContext |-> FALSE, historyLength |-> 0, error |-> text]

(***************************************************************************)
(* sendMessage and generateResponse                                        *)
(***************************************************************************)
\* POST /message: sendMessage validates req.body and answers 400, or
\* reads the user's history and calls getRelevantMarketData(message)
StartChatUpTo(w, body, limit) ==
    /\ worker[w].pc = "idle"
    /\ started < limit
    /\ advances <= MaxTicks
    /\ started' = started + 1
    /\ LET err == ValidationError(body)
           base == [IdleWorker EXCEPT !.op = "chat", !.body = body]
       IN  IF err # "none"
           THEN /\ worker' = [worker EXCEPT ![w] =
                      [base EXCEPT !.pc = "done",
                                   !.replies = <<[status |-> 400,
                                                  body |-> ErrorBody(err)]>>]]
                /\ UNCHANGED chatHistoryStore
           ELSE /\ chatHistoryStore' = StoreAfterGet(chatHistoryStore, body.userId)
                /\ worker' = [worker EXCEPT ![w] =
                      BeginRelevant(
                          [base EXCEPT !.chatHistory =
                              getChatHistory(chatHistoryStore, body.userId, ContextLen)],
                          body.message.chars)]
    /\ UNCHANGED <<extractVars, sentimentVars, processVars, clockVars, rateVars, cacheVars,
                   getVars, yahooFinance, initPromise, isGeminiActive>>

StartChat(w, body) == StartChatUpTo(w, body, MaxRequests)

\* sendMessage calls generateResponse: with quotes and a model it awaits
\* generateGeminiResponse, which calls model.generateContent; with quotes
\* and no model it returns the formatted reply; without quotes the mock
AI_Start(w) ==
    /\ worker[w].pc = "ai_start"
    /\ worker' = [worker EXCEPT ![w] =
          IF HasQuotes(worker[w]) /\ isGeminiActive
          THEN [@ EXCEPT !.pc = "ai_llm", !.llm = "pending", !.llmCalls = @ + 1]
          ELSE [@ EXCEPT !.pc = "ai_done",
                         !.aiResponse = <<IF HasQuotes(worker[w])
                                          THEN FormattedResponse(worker[w])
                                          ELSE MockResponse(worker[w])>>]]
    /\ UNCHANGED <<extractVars, chatVars, sentimentVars, processVars, clockVars, rateVars,
                   cacheVars, getVars, yahooFinance, initPromise, started>>

\* the language model answers, or fails
LLMSettles(w, outcome) ==
    /\ worker[w].pc = "ai_llm"
    /\ worker[w].llm = "pending"
    /\ worker' = [worker EXCEPT ![w].llm = outcome]
    /\ UNCHANGED <<extractVars, chatVars, sentimentVars, processVars, clockVars, rateVars,
                   cacheVars, getVars, yahooFinance, initPromise, started>>

\* generateResponse after await this.generateGeminiResponse
AI_AfterGemini(w) ==
    /\ worker[w].pc = "ai_llm"
    /\ worker[w].llm # "pending"
    /\ worker' = [worker EXCEPT
          ![w].pc = "ai_done",
          ![w].aiResponse = <<ResponseAfterGemini(worker[w].llm, worker[w])>>]
    /\ UNCHANGED <<extractVars, chatVars, sentimentVars, processVars, clockVars, rateVars,
                   cacheVars, getVars, yahooFinance, initPromise, started>>

\* sendMessage after await aiService.generateResponse: addToHistory and
\* res.json; from the catch, res.status(500).json
Chat_Reply(w) ==
    /\ worker[w].pc = "ai_done"
    /\ IF Thrown(worker[w])
       THEN /\ worker' = [worker EXCEPT
                  ![w].pc = "done",
                  ![w].replies = Append(@, [status |-> 500,
                                            body |-> ErrorBody("Failed to process message")])]
            /\ UNCHANGED chatHistoryStore
       ELSE /\ chatHistoryStore' =
                  addToHistory(chatHistoryStore, worker[w].body.userId,
                               worker[w].message, worker[w].aiResponse[1].text)
            /\ worker' = [worker EXCEPT
                  ![w].pc = "done",
                  ![w].replies = Append(@, [status |-> 200,
                                            body |-> ReplyBody(worker[w],
                                                               Len(worker[w].chatHistory))])]
    /\ UNCHANGED <<extractVars, sentimentVars, processVars, clockVars, rateVars, cacheVars,
                   getVars, yahooFinance, initPromise, started, isGeminiActive>>

(***************************************************************************)
(* getDetailedStockData                                                    *)
(***************************************************************************)
\* `detailed_${symbol}_${JSON.stringify(options)}`, options being {}
DetailedKey(sym) == "detailed_" \o sym \o "_{}"

\* the provider calls of the fetch function, in their order
DetailedCalls == <<"quoteSummary", "historical", "chart">>

\* the object the fetch function returns; parts holds the outcome of each
\* of the three provider calls, a failed call being replaced by null or []
\* by its catch handler
DetailedData(sym, parts) ==
    [symbol |-> SymToUpperCase(sym),
     quote |-> IF parts[1] = "resolved" THEN "price" ELSE "null",
     summaryDetail |-> IF parts[1] = "resolved" THEN "summaryDetail" ELSE "null",
     historical |-> IF parts[2] = "resolved" THEN "bars" ELSE "[]",
     intraday |-> IF parts[3] = "resolved" THEN "quotes" ELSE "[]"]

\* a handler calls getDetailedStockData(sym): await ensureReady(); at most
\* limit requests are made
StartDetailed(w, sym, limit) ==
    /\ worker[w].pc = "idle"
    /\ started < limit
    /\ advances <= MaxTicks
    /\ started' = started + 1
    /\ worker' = [worker EXCEPT ![w] =
          [IdleWorker EXCEPT !.op = "detailed", !.pc = "dt_ready", !.sym = sym,
                             !.after = DoneWorkers]]
    /\ UNCHANGED <<extractVars, chatVars, sentimentVars, processVars, clockVars, rateVars, cacheVars, getVars,
                   yahooFinance, initPromise>>

\* getDetailedStockData after ensureReady: its error goes to the catch, which
\* calls getStockData(symbol) (totalRequests++, await ensureReady());
\* otherwise checkRateLimit is entered
DT_Ready(w) ==
    /\ worker[w].pc = "dt_ready"
    /\ ReadySettled
    /\ IF ReadyFails
       THEN /\ stats' = [stats EXCEPT !.totalRequests = @ + 1]
            /\ worker' = [worker EXCEPT ![w].pc = "sd_ready"]
            /\ UNCHANGED <<rateLimit, granted>>
       ELSE LET r == CheckRateLimitEntry(rateLimit, now)
            IN  /\ rateLimit' = r.rl
                /\ granted' = GrantedAfter(rateLimit, r.rl, IF r.suspended THEN 0 ELSE 1)
                /\ worker' = [worker EXCEPT
                      ![w].pc = IF r.suspended THEN "dt_wait" ELSE "dt_granted",
                      ![w].wakeAt = r.wakeAt,
                      ![w].slots = IF r.suspended THEN @ ELSE @ + 1]
                /\ UNCHANGED stats
    /\ UNCHANGED <<extractVars, chatVars, sentimentVars, processVars, clockVars, caller, cache, getVars,
                   yahooFinance, initPromise, started>>

\* getDetailedStockData's checkRateLimit resumes after its timer
DT_Resume(w) ==
    /\ worker[w].pc = "dt_wait"
    /\ now >= worker[w].wakeAt
    /\ rateLimit' = CheckRateLimitResume(rateLimit, now)
    /\ granted' = GrantedAfter(rateLimit, rateLimit', 1)
    /\ worker' = [worker EXCEPT ![w].pc = "dt_granted", ![w].slots = @ + 1]
    /\ UNCHANGED <<extractVars, chatVars, sentimentVars, processVars, clockVars, caller, cacheVars, getVars,
                   yahooFinance, initPromise, started>>

\* getDetailedStockData calls getCachedData(cacheKey, fetch): a hit returns
\* the stored object; a miss runs the fetch function, which calls
\* yf.quoteSummary
DT_Lookup(w) ==
    /\ worker[w].pc = "dt_granted"
    /\ LET key == DetailedKey(worker[w].sym)
       IN  IF CacheHit(cache, key, now)
           THEN /\ stats' = [stats EXCEPT !.cacheHits = @ + 1]
                /\ worker' = [worker EXCEPT ![w].pc = "done",
                                            ![w].result = <<cache[key].data>>]
           ELSE /\ stats' = [stats EXCEPT !.cacheMisses = @ + 1]
                /\ worker' = [worker EXCEPT ![w].pc = "dt_fetch",
                                            ![w].fetch = "pending",
                                            ![w].provCalls = @ + 1]
    /\ UNCHANGED <<extractVars, chatVars, sentimentVars, processVars, clockVars, rateVars, cache, getVars,
                   yahooFinance, initPromise, started>>

\* the provider answers the call of the fetch function that is in flight
DetailSettles(w, outcome) ==
    /\ worker[w].pc = "dt_fetch"
    /\ worker[w].fetch = "pending"
    /\ worker' = [worker EXCEPT ![w].fetch = outcome]
    /\ UNCHANGED <<extractVars, chatVars, sentimentVars, processVars, clockVars, rateVars, cacheVars, getVars,
                   yahooFinance, initPromise, started>>

\* the fetch function after one of its awaits: a failure has been replaced
\* by the catch handler of the call; the next provider call is made, or,
\* after the third, the object is returned to getCachedData, which stores
\* it and returns it
DT_Part(w) ==
    /\ worker[w].pc = "dt_fetch"
    /\ worker[w].fetch \in {"resolved", "rejected"}
    /\ LET parts == Append(worker[w].parts, worker[w].fetch)
           data == DetailedData(worker[w].sym, parts)
       IN  IF Len(parts) < Len(DetailedCalls)
           THEN /\ worker' = [worker EXCEPT ![w].parts = parts,
                                            ![w].fetch = "pending",
                                            ![w].provCalls = @ + 1]
                /\ UNCHANGED cache
           ELSE /\ worker' = [worker EXCEPT ![w].parts = parts,
                                            ![w].fetch = "none",
                                            ![w].pc = "done",
                                            ![w].result = <<data>>]
                /\ cache' = MapSet(cache, DetailedKey(worker[w].sym),
                                   [data |-> data, timestamp |-> now])
    /\ UNCHANGED <<extractVars, chatVars, sentimentVars, processVars, clockVars, rateVars, stats, getVars,
                   yahooFinance, initPromise, started>>

(***************************************************************************)
(* getTrendingSymbols and searchStocks: the operations that return a list   *)
(* of the provider, or [] from their catch                                  *)
(***************************************************************************)
ListOps == {"trending", "search"}

\* `trending_${region}`, region being 'US'
TrendingKey == "trending_US"

\* what the provider's answer holds: quotes, or no quotes field
ListKinds == {"quotes", "noquotes"}

\* trending.quotes || [], searchResults.quotes || []
ListOf(kind) == IF kind = "quotes" THEN <<"quote">> ELSE << >>

\* a handler calls getTrendingSymbols() or searchStocks(query): await
\* ensureReady(); at most limit requests are made
StartList(w, op, limit) ==
    /\ worker[w].pc = "idle"
    /\ started < limit
    /\ advances <= MaxTicks
    /\ started' = started + 1
    /\ worker' = [worker EXCEPT ![w] =
          [IdleWorker EXCEPT !.op = op, !.pc = "ls_ready", !.after = DoneWorkers]]
    /\ UNCHANGED <<extractVars, chatVars, sentimentVars, processVars, clockVars, rateVars, cacheVars, getVars,
                   yahooFinance, initPromise>>

\* after ensureReady: its error goes to the catch, which returns [];
\* otherwise checkRateLimit is entered
LS_Ready(w) ==
    /\ worker[w].pc = "ls_ready"
    /\ ReadySettled
    /\ IF ReadyFails
       THEN /\ worker' = [worker EXCEPT ![w].pc = "done", ![w].result = << >>,
                                        ![w].error = ReadyErrorText]
            /\ UNCHANGED <<rateLimit, granted>>
       ELSE LET r == CheckRateLimitEntry(rateLimit, now)
            IN  /\ rateLimit' = r.rl
                /\ granted' = GrantedAfter(rateLimit, r.rl, IF r.suspended THEN 0 ELSE 1)
                /\ worker' = [worker EXCEPT
                      ![w].pc = IF r.suspended THEN "ls_wait" ELSE "ls_granted",
                      ![w].wakeAt = r.wakeAt,
                      ![w].slots = IF r.suspended THEN @ ELSE @ + 1]
    /\ UNCHANGED <<extractVars, chatVars, sentimentVars, processVars, clockVars, caller, cacheVars, getVars,
                   yahooFinance, initPromise, started>>

\* the operation's checkRateLimit resumes after its timer
LS_Resume(w) ==
    /\ worker[w].pc = "ls_wait"
    /\ now >= worker[w].wakeAt
    /\ rateLimit' = CheckRateLimitResume(rateLimit, now)
    /\ granted' = GrantedAfter(rateLimit, rateLimit', 1)
    /\ worker' = [worker EXCEPT ![w].pc = "ls_granted", ![w].slots = @ + 1]
    /\ UNCHANGED <<extractVars, chatVars, sentimentVars, processVars, clockVars, caller, cacheVars, getVars,
                   yahooFinance, initPromise, started>>

\* searchStocks calls yf.search(query); getTrendingSymbols calls
\* getCachedData, where a hit returns the stored list and a miss runs the
\* fetch function, which calls yf.trendingSymbols
LS_Call(w) ==
    /\ worker[w].pc = "ls_granted"
    /\ IF worker[w].op = "trending" /\ CacheHit(cache, TrendingKey, now)
       THEN /\ stats' = [stats EXCEPT !.cacheHits = @ + 1]
            /\ worker' = [worker EXCEPT ![w].pc = "done",
                                        ![w].result = cache[TrendingKey].data]
       ELSE /\ stats' = IF worker[w].op = "trending"
                        THEN [stats EXCEPT !.cacheMisses = @ + 1]
                        ELSE stats
            /\ worker' = [worker EXCEPT ![w].pc = "ls_fetch",
                                        ![w].fetch = "pending",
                                        ![w].provCalls = @ + 1]
    /\ UNCHANGED <<extractVars, chatVars, sentimentVars, processVars, clockVars, rateVars, cache, getVars,
                   yahooFinance, initPromise, started>>

\* the provider answers yf.search or yf.trendingSymbols, or fails
ListSettles(w, outcome, kind) ==
    /\ worker[w].pc = "ls_fetch"
    /\ worker[w].fetch = "pending"
    /\ worker' = [worker EXCEPT ![w].fetch = outcome,
                                ![w].kind = IF outcome = "resolved" THEN kind ELSE "none",
                                ![w].upstream = IF outcome = "resolved" THEN "none"
                                                ELSE ProviderErrorText]
    /\ UNCHANGED <<extractVars, chatVars, sentimentVars, processVars, clockVars, rateVars, cacheVars, getVars,
                   yahooFinance, initPromise, started>>

\* after the await of the provider call: the list is returned, through
\* getCachedData's set for getTrendingSymbols; an error goes to the catch,
\* which returns []
LS_Fetched(w) ==
    /\ worker[w].pc = "ls_fetch"
    /\ worker[w].fetch \in {"resolved", "rejected"}
    /\ LET ok == worker[w].fetch = "resolved"
           list == IF ok THEN ListOf(worker[w].kind) ELSE << >>
       IN  /\ cache' = IF worker[w].op = "trending"
                       THEN CacheAfterFetch(cache, TrendingKey, worker[w].fetch, list, now)
                       ELSE cache
           /\ worker' = [worker EXCEPT ![w].pc = "done", ![w].fetch = "none",
                                       ![w].result = list,
                                       ![w].error = IF ok THEN "none"
                                                    ELSE worker[w].upstream]
    /\ UNCHANGED <<extractVars, chatVars, sentimentVars, processVars, clockVars, rateVars, stats, getVars,
                   yahooFinance, initPromise, started>>

(***************************************************************************)
(* GET /market/:symbol: getMarketData of the chat controller               *)
(***************************************************************************)
\* req.params.symbol: the route matches a path segment that is not empty
RouteSymbols == {"AAPL", "msft", "BADSYM"}

\* the body of res.json(...) after getStockData returned
MarketBody(wr) ==
    [success |-> TRUE, data |-> wr.result[1], symbol |-> wr.sym]

\* the catch block reads symbol in a template literal; symbol is a const of
\* the try block, which the catch block does not see
SymbolInCatchScope == FALSE

ReferenceErrorText == "ReferenceError: symbol is not defined"

\* a client requests GET /market/:symbol: getMarketData reads the parameter,
\* answers 400 when it is missing, or calls
\* getStockData(symbol.toUpperCase()): totalRequests++, await ensureReady()
StartMarketData(w, symbol) ==
    /\ worker[w].pc = "idle"
    /\ started < MaxRequests
    /\ advances <= MaxTicks
    /\ started' = started + 1
    /\ IF symbol \in Falsy
       THEN /\ worker' = [worker EXCEPT ![w] =
                  [IdleWorker EXCEPT !.op = "market", !.pc = "done", !.params = symbol,
                                     !.replies = <<[status |-> 400,
                                                    body |-> ErrorBody("Stock symbol is required")]>>]]
            /\ UNCHANGED stats
       ELSE /\ stats' = [stats EXCEPT !.totalRequests = @ + 1]
            /\ worker' = [worker EXCEPT ![w] =
                  [IdleWorker EXCEPT !.op = "market", !.pc = "sd_ready", !.params = symbol,
                                     !.sym = SymToUpperCase(symbol)]]
    /\ UNCHANGED <<extractVars, chatVars, sentimentVars, processVars, clockVars, rateVars, cache, getVars,
                   yahooFinance, initPromise>>

\* getMarketData after await getStockData: res.json with the quote; or the
\* catch block, where res.status(500) is followed by the evaluation of the
\* body, which throws before json is called: the error leaves the handler
MD_Return(w) ==
    /\ worker[w].pc = "md_return"
    /\ worker' = [worker EXCEPT ![w] =
          IF ~worker[w].failed
          THEN [@ EXCEPT !.pc = "done",
                         !.replies = Append(@, [status |-> 200,
                                                body |-> MarketBody(worker[w])])]
          ELSE IF SymbolInCatchScope
          THEN [@ EXCEPT !.pc = "done",
                         !.replies = Append(@, [status |-> 500,
                                                body |-> ErrorBody("Failed to retrieve market data")])]
          ELSE [@ EXCEPT !.pc = "done", !.escaped = ReferenceErrorText]]
    /\ UNCHANGED <<extractVars, chatVars, sentimentVars, processVars, clockVars, rateVars, cacheVars, getVars,
                   yahooFinance, initPromise, started>>

\* DELETE /history/:userId: clearChatHistory deletes the user's entry and
\* answers; the route gives it a userId that is not empty
clearChatHistory(store, userId) ==
    [k \in DOMAIN store \ {userId} |-> store[k]]

ClearChatHistory(userId) ==
    /\ chatHistoryStore' = clearChatHistory(chatHistoryStore, userId)
    /\ UNCHANGED <<extractVars, sentimentVars, processVars, clockVars, rateVars, cacheVars,
                   getVars, marketVars, isGeminiActive>>

\* a handler that is idle, or awaits the module's import or the provider's
\* answer: the awaits of the quote client during which a window can pass
AwaitsIO(wr) ==
    \/ wr.pc = "idle"
    \/ wr.pc \in {"sd_ready", "mq_ready"} /\ ~ReadySettled
    \/ wr.pc \in {"sd_fetch", "mq_fetch"} /\ wr.fetch = "pending"
    \/ wr.pc = "ai_llm" /\ wr.llm = "pending"

\* d ms pass while the handlers wait for the network
ProviderTakes(d) ==
    /\ \A w \in Workers : AwaitsIO(worker[w])
    /\ Tick(d)

(***************************************************************************)
(* The process and its HTTP server (src/src/server.js), with the signal    *)
(* handlers of server.js and of config/database.js                         *)
(***************************************************************************)
\* how many termination signals the operating system delivers
MaxSignals == 3

\* how many client connections are open at once
MaxConnections == 4

Signals == {"SIGTERM", "SIGINT"}

\* const server = app.listen(PORT, ...): listening, no connection, no close
\* callback registered, the 'close' event not emitted; the process runs
InitProcess ==
    /\ server = [listening |-> TRUE, connections |-> 0, closeCallbacks |-> 0,
                 closed |-> FALSE]
    /\ process = [state |-> "running", exitCode |-> -1, signals |-> << >>,
                  dbClosing |-> 0, exitBy |-> "none", closedAtExit |-> FALSE]

\* process.exit(code), called by the handler named in by
Exit(pr, code, by, srv) ==
    [pr EXCEPT !.state = "exited", !.exitCode = code, !.exitBy = by,
               !.closedAtExit = srv.closed]

\* server.close(cb): the listening socket stops accepting connections and cb
\* is registered for the 'close' event
ServerClose(srv) ==
    [srv EXCEPT !.listening = FALSE, !.closeCallbacks = @ + 1]

\* the handlers of a signal, in the order in which they were registered:
\* database.js is required (server.js line 13) before server.js registers its
\* own handlers, so on SIGINT the handler of database.js runs first, up to
\* its await of mongoose.connection.close()
DbHandlers(sig) == IF sig = "SIGINT" THEN 1 ELSE 0

\* the operating system delivers a termination signal
Signal(sig) ==
    /\ process.state = "running"
    /\ Len(process.signals) < MaxSignals
    /\ process' = [process EXCEPT !.signals = Append(@, sig),
                                  !.dbClosing = @ + DbHandlers(sig)]
    /\ server' = ServerClose(server)
    /\ UNCHANGED <<extractVars, chatVars, sentimentVars, marketVars, clockVars,
                   rateVars, cacheVars, getVars>>

\* a client opens a connection to the listening server
Connect ==
    /\ process.state = "running"
    /\ server.listening
    /\ server.connections < MaxConnections
    /\ server' = [server EXCEPT !.connections = @ + 1]
    /\ UNCHANGED <<extractVars, chatVars, sentimentVars, marketVars, clockVars,
                   rateVars, cacheVars, getVars, process>>

\* a connection ends
Disconnect ==
    /\ process.state = "running"
    /\ server.connections > 0
    /\ server' = [server EXCEPT !.connections = @ - 1]
    /\ UNCHANGED <<extractVars, chatVars, sentimentVars, marketVars, clockVars,
                   rateVars, cacheVars, getVars, process>>

\* the server, not listening and without connections, emits 'close': the
\* callbacks given to server.close run, the first one calls process.exit(0)
ServerClosed ==
    /\ process.state = "running"
    /\ ~server.listening
    /\ server.connections = 0
    /\ ~server.closed
    /\ server' = [server EXCEPT !.closed = TRUE]
    /\ process' = IF server.closeCallbacks > 0
                  THEN Exit(process, 0, "server", server')
                  ELSE process
    /\ UNCHANGED <<extractVars, chatVars, sentimentVars, marketVars, clockVars,
                   rateVars, cacheVars, getVars>>

\* mongoose.connection.close() settles: the SIGINT handler of database.js
\* resumes and calls process.exit(0)
DbClosed ==
    /\ process.state = "running"
    /\ process.dbClosing > 0
    /\ process' = Exit([process EXCEPT !.dbClosing = @ - 1], 0, "database", server)
    /\ UNCHANGED <<extractVars, chatVars, sentimentVars, marketVars, clockVars,
                   rateVars, cacheVars, getVars, server>>

(***************************************************************************)
(* The specifications                                                      *)
(***************************************************************************)
InitRate ==
    /\ message = << >>
    /\ exPc = "done"
    /\ exResult = << >>
    /\ InitClock
    /\ InitRateLimit
    /\ InitCache
    /\ InitGetters
    /\ InitMarket
    /\ InitProcess
    /\ InitChat
    /\ InitSentiment

NextRate ==
    \/ \E c \in Callers : RL_Call(c)
    \/ \E c \in Callers : RL_Resume(c)
    \/ \E c \in Callers : RL_Done(c)
    \/ \E d \in TickSteps : Tick(d)
    \/ Elapse

SpecRate == InitRate /\ [][NextRate]_vars

\* the event loop runs a timer callback once its delay has passed
FairSpecRate ==
    /\ SpecRate
    /\ WF_vars(Elapse)
    /\ \A c \in Callers : WF_vars(RL_Resume(c))

InitCacheSpec ==
    /\ message = << >>
    /\ exPc = "done"
    /\ exResult = << >>
    /\ InitClock
    /\ InitRateLimit
    /\ InitCache
    /\ InitGetters
    /\ InitMarket
    /\ InitProcess
    /\ InitChat
    /\ InitSentiment

NextCache ==
    \/ \E g \in Getters, k \in Keys : GC_Call(g, k)
    \/ \E g \in Getters, o \in {"resolved", "rejected"} : GC_FetchSettles(g, o)
    \/ \E g \in Getters : GC_Continue(g)
    \/ \E g \in Getters : GC_Done(g)
    \/ \E d \in TickSteps : Tick(d)

SpecCache == InitCacheSpec /\ [][NextCache]_vars

InitMarketSpec ==
    /\ message = << >>
    /\ exPc = "done"
    /\ exResult = << >>
    /\ InitClock
    /\ InitRateLimit
    /\ InitCache
    /\ InitGetters
    /\ InitMarket
    /\ InitProcess
    /\ InitChat
    /\ InitSentiment

NextMarket ==
    \/ LoadSucceeds
    \/ LoadFails
    \/ \E w \in Workers, sym \in Elements : StartSingle(w, sym)
    \/ \E w \in Workers, syms \in SymbolLists : StartMulti(w, syms)
    \/ \E w \in Workers, msg \in RelevantMessages : StartRelevant(w, msg)
    \/ \E w \in Workers : RM_Return(w)
    \/ \E w \in Workers : SD_Ready(w)
    \/ \E w \in Workers : SD_Resume(w)
    \/ \E w \in Workers : SD_Lookup(w)
    \/ \E w \in Workers, k \in PayloadKinds : ProviderSettles(w, "resolved", k)
    \/ \E w \in Workers : ProviderSettles(w, "rejected", "none")
    \/ \E w \in Workers : SD_Fetched(w)
    \/ \E w \in Workers : SD_Return(w)
    \/ \E w \in Workers : MQ_Ready(w)
    \/ \E w \in Workers : MQ_Resume(w)
    \/ \E w \in Workers : MQ_Batch(w)
    \/ \E w \in Workers : MQ_Fetched(w)
    \/ \E w \in Workers : FB_Next(w)
    \/ \E w \in Workers : Finish(w)
    \/ SearchStocks
    \/ ProviderTakes(WindowMs)
    \/ Elapse

SpecMarket == InitMarketSpec /\ [][NextMarket]_vars

\* the AI service is constructed with a model (GEMINI_API_KEY is set and
\* the client initializes) or without one
InitChatSpec ==
    /\ message = << >>
    /\ exPc = "done"
    /\ exResult = << >>
    /\ InitClock
    /\ InitRateLimit
    /\ InitCache
    /\ InitGetters
    /\ InitMarket
    /\ InitProcess
    /\ InitSentiment
    /\ chatHistoryStore = EmptyMap
    /\ isGeminiActive \in BOOLEAN

\* The chat requests.  Searches come before them, so that getStockData,
\* which sendMessage reaches only after getMultipleQuotes' checkRateLimit
\* and a failed batch, never finds the limiter full: SD_Resume cannot occur.
NextChat ==
    \/ LoadSucceeds
    \/ LoadFails
    \/ \E w \in Workers, body \in Bodies : StartChat(w, body)
    \/ \E w \in Workers : MQ_Ready(w)
    \/ \E w \in Workers : MQ_Resume(w)
    \/ \E w \in Workers : MQ_Batch(w)
    \/ \E w \in Workers, k \in PayloadKinds : ProviderSettles(w, "resolved", k)
    \/ \E w \in Workers : ProviderSettles(w, "rejected", "none")
    \/ \E w \in Workers : MQ_Fetched(w)
    \/ \E w \in Workers : FB_Next(w)
    \/ \E w \in Workers : SD_Ready(w)
    \/ \E w \in Workers : SD_Lookup(w)
    \/ \E w \in Workers : SD_Fetched(w)
    \/ \E w \in Workers : SD_Return(w)
    \/ \E w \in Workers : RM_Return(w)
    \/ \E w \in Workers : AI_Start(w)
    \/ \E w \in Workers, o \in LLMOutcomes : LLMSettles(w, o)
    \/ \E w \in Workers : AI_AfterGemini(w)
    \/ \E w \in Workers : Chat_Reply(w)
    \/ \E w \in Workers : Finish(w)
    \/ SearchStocks
    \/ ProviderTakes(WindowMs)
    \/ Elapse

SpecChat == InitChatSpec /\ [][NextChat]_vars

InitSentimentSpec ==
    /\ message = << >>
    /\ exPc = "done"
    /\ exResult = << >>
    /\ InitClock
    /\ InitRateLimit
    /\ InitCache
    /\ InitGetters
    /\ InitMarket
    /\ InitProcess
    /\ InitChat
    /\ marketData \in SentimentArguments
    /\ sentiment = "none"

NextSentiment == Calculate

SpecSentiment == InitSentimentSpec /\ [][NextSentiment]_vars

NextMarketRoute ==
    \/ LoadSucceeds
    \/ LoadFails
    \/ \E w \in Workers, symbol \in RouteSymbols : StartMarketData(w, symbol)
    \/ \E w \in Workers : SD_Ready(w)
    \/ \E w \in Workers : SD_Resume(w)
    \/ \E w \in Workers : SD_Lookup(w)
    \/ \E w \in Workers, k \in PayloadKinds : ProviderSettles(w, "resolved", k)
    \/ \E w \in Workers : ProviderSettles(w, "rejected", "none")
    \/ \E w \in Workers : SD_Fetched(w)
    \/ \E w \in Workers : SD_Return(w)
    \/ \E w \in Workers : MD_Return(w)
    \/ \E w \in Workers : Finish(w)
    \/ SearchStocks
    \/ ProviderTakes(WindowMs)
    \/ Elapse

SpecMarketRoute == InitMarketSpec /\ [][NextMarketRoute]_vars

\* two handlers, so that a request can follow or overlap another one
Handlers == {"w1", "w2"}

\* how many quote requests the two handlers start
MaxLookups == 2

\* the arrays and the symbol of the requests
BatchLists == { <<"AAPL">>, <<"msft", "AAPL">> }

LookupSymbols == {"AAPL"}

InitBatchCache ==
    /\ message = << >>
    /\ exPc = "done"
    /\ exResult = << >>
    /\ InitClock
    /\ InitRateLimit
    /\ InitCache
    /\ InitGetters
    /\ yahooFinance = "null"
    /\ initPromise = "pending"
    /\ worker = [w \in Handlers |-> IdleWorker]
    /\ started = 0
    /\ InitProcess
    /\ InitChat
    /\ InitSentiment

\* the limiter has room for every call of these requests, so that no call
\* waits; a handler that has finished keeps its result
NextBatchCache ==
    \/ LoadSucceeds
    \/ LoadFails
    \/ \E w \in Handlers, syms \in BatchLists : StartMultiUpTo(w, syms, MaxLookups)
    \/ \E w \in Handlers, sym \in LookupSymbols : StartSingleUpTo(w, sym, MaxLookups)
    \/ \E w \in Handlers : SD_Ready(w)
    \/ \E w \in Handlers : SD_Lookup(w)
    \/ \E w \in Handlers, k \in PayloadKinds : ProviderSettles(w, "resolved", k)
    \/ \E w \in Handlers : ProviderSettles(w, "rejected", "none")
    \/ \E w \in Handlers : SD_Fetched(w)
    \/ \E w \in Handlers : SD_Return(w)
    \/ \E w \in Handlers : MQ_Ready(w)
    \/ \E w \in Handlers : MQ_Batch(w)
    \/ \E w \in Handlers : MQ_Fetched(w)
    \/ \E w \in Handlers : FB_Next(w)
    \/ Tick(1)

SpecBatchCache == InitBatchCache /\ [][NextBatchCache]_vars

\* the symbols getDetailedStockData is called with
DetailedSymbols == {"AAPL", "msft"}

NextDetailed ==
    \/ LoadSucceeds
    \/ LoadFails
    \/ \E w \in Handlers, sym \in DetailedSymbols : StartDetailed(w, sym, MaxLookups)
    \/ \E w \in Handlers : DT_Ready(w)
    \/ \E w \in Handlers : DT_Resume(w)
    \/ \E w \in Handlers : DT_Lookup(w)
    \/ \E w \in Handlers, o \in {"resolved", "rejected"} : DetailSettles(w, o)
    \/ \E w \in Handlers : DT_Part(w)
    \/ \E w \in Handlers : SD_Ready(w)
    \/ SearchStocks
    \/ Elapse

SpecDetailed == InitBatchCache /\ [][NextDetailed]_vars

\* a history of n entries as addToHistory builds it
PairsHistory(n) ==
    [k \in 1..n |-> IF k % 2 = 1 THEN [role |-> "user", content |-> <<"q">>]
                    ELSE [role |-> "assistant", content |-> "a"]]

\* the store at the start: no user yet, or the user's history after 49 or
\* after 50 and more exchanges
InitialStores ==
    { EmptyMap,
      [u \in Users |-> PairsHistory(HistoryLimit - 2)],
      [u \in Users |-> PairsHistory(HistoryLimit)] }

\* the bodies of the POST /message requests
HistoryBodies ==
    { [userId |-> "u1", message |-> StringValue(<<"i","s"," ","t","h","e">>)],
      [userId |-> "u1", message |-> StringValue(<<"c"," ","p","r","i","c","e">>)],
      [userId |-> "u1", message |-> StringValue(<<" ">>)] }

InitHistory ==
    /\ message = << >>
    /\ exPc = "done"
    /\ exResult = << >>
    /\ InitClock
    /\ InitRateLimit
    /\ InitCache
    /\ InitGetters
    /\ yahooFinance = "null"
    /\ initPromise = "pending"
    /\ worker = [w \in Handlers |-> IdleWorker]
    /\ started = 0
    /\ InitProcess
    /\ InitSentiment
    /\ chatHistoryStore \in InitialStores
    /\ isGeminiActive \in BOOLEAN

\* two handlers of POST /message and the DELETE /history requests of the
\* same user; the limiter has room for every call of these requests
NextHistory ==
    \/ LoadSucceeds
    \/ LoadFails
    \/ \E w \in Handlers, body \in HistoryBodies : StartChatUpTo(w, body, MaxLookups)
    \/ \E u \in Users : ClearChatHistory(u)
    \/ \E w \in Handlers : MQ_Ready(w)
    \/ \E w \in Handlers : MQ_Batch(w)
    \/ \E w \in Handlers, k \in PayloadKinds : ProviderSettles(w, "resolved", k)
    \/ \E w \in Handlers : ProviderSettles(w, "rejected", "none")
    \/ \E w \in Handlers : MQ_Fetched(w)
    \/ \E w \in Handlers : FB_Next(w)
    \/ \E w \in Handlers : SD_Ready(w)
    \/ \E w \in Handlers : SD_Lookup(w)
    \/ \E w \in Handlers : SD_Fetched(w)
    \/ \E w \in Handlers : SD_Return(w)
    \/ \E w \in Handlers : RM_Return(w)
    \/ \E w \in Handlers : AI_Start(w)
    \/ \E w \in Handlers, o \in LLMOutcomes : LLMSettles(w, o)
    \/ \E w \in Handlers : AI_AfterGemini(w)
    \/ \E w \in Handlers : Chat_Reply(w)

SpecHistory == InitHistory /\ [][NextHistory]_vars

\* the requests made while the provider module loads, or after
ReadySymbols == {"AAPL"}

ReadyLists == { <<"AAPL", "msft">> }

NextReady ==
    \/ LoadSucceeds
    \/ LoadFails
    \/ \E w \in Handlers, sym \in ReadySymbols : StartSingleUpTo(w, sym, MaxLookups)
    \/ \E w \in Handlers, syms \in ReadyLists : StartMultiUpTo(w, syms, MaxLookups)
    \/ \E w \in Handlers, op \in ListOps : StartList(w, op, MaxLookups)
    \/ \E w \in Handlers : SD_Ready(w)
    \/ \E w \in Handlers : SD_Resume(w)
    \/ \E w \in Handlers : SD_Lookup(w)
    \/ \E w \in Handlers : ProviderSettles(w, "resolved", "full")
    \/ \E w \in Handlers : ProviderSettles(w, "rejected", "none")
    \/ \E w \in Handlers : SD_Fetched(w)
    \/ \E w \in Handlers : SD_Return(w)
    \/ \E w \in Handlers : MQ_Ready(w)
    \/ \E w \in Handlers : MQ_Resume(w)
    \/ \E w \in Handlers : MQ_Batch(w)
    \/ \E w \in Handlers : MQ_Fetched(w)
    \/ \E w \in Handlers : FB_Next(w)
    \/ \E w \in Handlers : LS_Ready(w)
    \/ \E w \in Handlers : LS_Resume(w)
    \/ \E w \in Handlers : LS_Call(w)
    \/ \E w \in Handlers, k \in ListKinds : ListSettles(w, "resolved", k)
    \/ \E w \in Handlers : ListSettles(w, "rejected", "none")
    \/ \E w \in Handlers : LS_Fetched(w)
    \/ SearchStocks
    \/ Elapse

SpecReady == InitBatchCache /\ [][NextReady]_vars

InitShutdown ==
    /\ message = << >>
    /\ exPc = "done"
    /\ exResult = << >>
    /\ InitClock
    /\ InitRateLimit
    /\ InitCache
    /\ InitGetters
    /\ InitMarket
    /\ InitProcess
    /\ InitChat
    /\ InitSentiment

NextShutdown ==
    \/ \E sig \in Signals : Signal(sig)
    \/ Connect
    \/ Disconnect
    \/ ServerClosed
    \/ DbClosed

SpecShutdown == InitShutdown /\ [][NextShutdown]_vars

InitExtract ==
    /\ message \in Messages
    /\ exPc = "start"
    /\ exResult = << >>
    /\ InitClock
    /\ InitRateLimit
    /\ InitCache
    /\ InitGetters
    /\ InitMarket
    /\ InitProcess
    /\ InitChat
    /\ InitSentiment

Extract ==
    /\ exPc = "start"
    /\ exResult' = extractSymbolsFromMessage(message)
    /\ exPc' = "done"
    /\ UNCHANGED <<message, chatVars, sentimentVars, processVars, marketVars, clockVars, rateVars,
                   cacheVars, getVars>>

NextExtract == Extract

SpecExtract == InitExtract /\ [][NextExtract]_vars

(***************************************************************************)
(* What the extractor is claimed to compute, stated on the letter runs of  *)
(* the message and not on the pattern's scan.                              *)
(***************************************************************************)
\* The maximal runs of upper-case letters of s, left to right.
RECURSIVE UpperRuns(_, _, _)
UpperRuns(s, i, cur) ==
    IF i > Len(s) THEN (IF cur = << >> THEN << >> ELSE <<cur>>)
    ELSE IF IsUpperLetter(s[i]) THEN UpperRuns(s, i + 1, Append(cur, s[i]))
    ELSE (IF cur = << >> THEN << >> ELSE <<cur>>) \o UpperRuns(s, i + 1, << >>)

\* The maximal letter runs of s that end at a word boundary: the message
\* ends there, or a character other than a letter, a digit or "_" follows.
RECURSIVE BoundedRuns(_, _, _)
BoundedRuns(s, i, cur) ==
    LET close == IF cur = << >> \/ (i <= Len(s) /\ IsWordChar(s[i])) THEN << >>
                 ELSE <<cur>>
    IN  IF i > Len(s) THEN close
        ELSE IF IsUpperLetter(s[i]) THEN BoundedRuns(s, i + 1, Append(cur, s[i]))
        ELSE close \o BoundedRuns(s, i + 1, << >>)

\* a run cut to its last MaxSymbolLen letters
LastLetters(r) ==
    SubSeq(r, IF Len(r) > MaxSymbolLen THEN Len(r) - MaxSymbolLen + 1 ELSE 1, Len(r))

\* The tokens of a message: its letter runs, letter case ignored, that end
\* at a word boundary, each cut to its last five letters.
Tokens(msg) ==
    LET runs == BoundedRuns(ToUpperCase(msg), 1, << >>)
    IN  [i \in DOMAIN runs |-> LastLetters(runs[i])]

\* the elements of a, each at its first occurrence only
RECURSIVE KeepFirst(_, _)
KeepFirst(a, seen) ==
    IF a = << >> THEN << >>
    ELSE IF Head(a) \in seen THEN KeepFirst(Tail(a), seen)
    ELSE <<Head(a)>> \o KeepFirst(Tail(a), seen \cup {Head(a)})

IsShortNonStop(r) == Len(r) \in 1..MaxSymbolLen /\ r \notin commonWords

IndexOf(a, x) == CHOOSE i \in DOMAIN a : a[i] = x

\* every element of a is in b, in the same relative order
InOrderWithin(a, b) ==
    /\ \A i \in DOMAIN a : a[i] \in Range(b)
    /\ \A i, j \in DOMAIN a : i < j => IndexOf(b, a[i]) < IndexOf(b, a[j])

NoDuplicates(a) == \A i, j \in DOMAIN a : i # j => a[i] # a[j]

\* C6: the result of extractSymbolsFromMessage has at most 5 elements, no
\* duplicates, no stopword, and only elements of 1 to 5 upper-case letters.
C6_ResultShape ==
    exPc = "done" =>
        /\ Len(exResult) <= 5
        /\ NoDuplicates(exResult)
        /\ \A i \in DOMAIN exResult :
              /\ exResult[i] \notin commonWords
              /\ Len(exResult[i]) \in 1..5
              /\ \A k \in DOMAIN exResult[i] : exResult[i][k] \in UpperSet

\* C6 witness: a call that had to drop a stopword, collapse a duplicate and
\* cut the list to five.
C6_Witness ==
    /\ exPc = "done"
    /\ Len(exResult) = 5
    /\ LET possible == possibleSymbols(message)
       IN  /\ \E i \in DOMAIN possible : possible[i] \in commonWords
           /\ ~NoDuplicates(validSymbols(message))
           /\ Len(KeepFirst(validSymbols(message), {})) > 5

\* C7 as stated: every run of 1 to 5 letters of the message that is not a
\* stopword is in the result, the runs in order of first appearance and each
\* once.  The runs are read the way the pattern reads them: letter case
\* ignored, ending at a word boundary.
C7_EveryRunAppears ==
    exPc = "done" =>
        InOrderWithin(
            KeepFirst(SelectSeq(BoundedRuns(ToUpperCase(message), 1, << >>),
                                IsShortNonStop), {}),
            exResult)

\* C7 amended: the result is the first five, in order of first appearance
\* and each once, of the non-stopword tokens of the message; a run of 1 to 5
\* letters that ends at a word boundary is its own token, so it is in the
\* result exactly when fewer than five distinct tokens precede it.
C7_FirstFiveRuns ==
    exPc = "done" =>
        exResult = Slice(KeepFirst(SelectSeq(Tokens(message), IsShortNonStop), {}), 5)

\* C7 witness: a message with more than five distinct tokens, one of them
\* repeated, whose result holds the first five.
C7_Witness ==
    /\ exPc = "done"
    /\ LET toks == SelectSeq(Tokens(message), IsShortNonStop)
       IN  /\ Len(KeepFirst(toks, {})) > 5
           /\ ~NoDuplicates(toks)
           /\ Len(exResult) = 5
           /\ exResult[1] = toks[1]

\* every letter run of the upper-cased message is a stopword
StopwordOnly(msg) ==
    LET runs == UpperRuns(ToUpperCase(msg), 1, << >>)
    IN  \A i \in DOMAIN runs : runs[i] \in commonWords

\* C8: a message whose words are all stopwords, in any letter case, and the
\* empty message give an empty result.
C8_StopwordsOnlyEmpty ==
    (exPc = "done" /\ StopwordOnly(message)) => exResult = << >>

\* C8 witness: a message of several stopwords in both letter cases.
C8_Witness ==
    /\ exPc = "done"
    /\ StopwordOnly(message)
    /\ Len(UpperRuns(ToUpperCase(message), 1, << >>)) >= 3
    /\ "i" \in Range(message) /\ "T" \in Range(message)
    /\ exResult = << >>

\* C8 witness, the empty message
C8_WitnessEmpty == exPc = "done" /\ message = << >> /\ exResult = << >>

(***************************************************************************)
(* Claims about checkRateLimit                                             *)
(***************************************************************************)
\* C3: in every reachable state, whatever the interleaving of suspended and
\* resumed callers, requests <= maxRequests.
C3_CounterWithinLimit == rateLimit.requests <= rateLimit.maxRequests

\* C3 witness: the counter is at the limit in a window opened by a reset,
\* one caller suspended behind it and the other one's call just returned.
C3_Witness ==
    /\ rateLimit.requests = rateLimit.maxRequests
    /\ rateLimit.resetTime > WindowMs
    /\ \E c \in Callers : caller[c].pc = "waiting"
    /\ \E c \in Callers : caller[c].pc = "returned"

\* C4 as stated: a call made when maxRequests calls have been granted in
\* the current window (the one that ends at the current resetTime), and the
\* window has not expired, does not return before the resetTime that was in
\* force when it was made.
C4_BlocksAfterLimitGrants ==
    \A c \in Callers :
        (caller[c].pc = "returned" /\ caller[c].full) =>
            caller[c].returnedAt >= caller[c].callReset

\* C4 amended: a call made when the counter requests has reached
\* maxRequests, and the window has not expired, does not return before the
\* resetTime that was in force when it was made.
C4_BlocksWhenCounterFull ==
    \A c \in Callers :
        (caller[c].pc = "returned" /\ caller[c].counted) =>
            caller[c].returnedAt >= caller[c].callReset

\* C4 witness: such a call was made before the reset time, was suspended
\* until it, and has returned.
C4_Witness ==
    \E c \in Callers :
        /\ caller[c].pc = "returned"
        /\ caller[c].counted
        /\ caller[c].wakeAt = caller[c].callReset
        /\ caller[c].returnedAt >= caller[c].callReset
        /\ caller[c].returnedAt > 0
        /\ rateLimit.requests = 1

\* C5: every call of checkRateLimit returns (a suspended one once its timer
\* has fired); it has no failing outcome; and between its call and its
\* return the counter is incremented exactly once, in the step that returns.
C5_ReturnsAfterOneIncrement ==
    /\ \A c \in Callers : (caller[c].pc = "waiting") ~> (caller[c].pc = "returned")
    /\ [][\A c \in Callers :
            /\ caller'[c].pc \in {"idle", "waiting", "returned"}
            /\ (caller[c].pc = "idle" /\ caller'[c].pc = "returned") =>
                  rateLimit'.requests =
                      (IF now > rateLimit.resetTime THEN 0 ELSE rateLimit.requests) + 1
            /\ (caller[c].pc = "waiting" /\ caller'[c].pc = "returned") =>
                  rateLimit'.requests = 0 + 1
            /\ (caller[c].pc = "idle" /\ caller'[c].pc = "waiting") =>
                  rateLimit'.requests \in {0, rateLimit.requests}
            /\ (caller[c].pc = "waiting" /\ caller'[c].pc = "waiting") =>
                  \/ rateLimit' = rateLimit
                  \/ \E d \in Callers \ {c} : caller'[d] # caller[d]
         ]_vars

\* C5 witness: a call that was suspended has returned.
C5_Witness ==
    \E c \in Callers :
        /\ caller[c].pc = "returned"
        /\ caller[c].wakeAt > 0
        /\ caller[c].returnedAt >= caller[c].wakeAt


(***************************************************************************)
(* Claims about getCachedData                                              *)
(***************************************************************************)
\* C1: a call made while the key's entry is less than cacheTimeout old
\* returns the entry's value (the value the storing call returned) without
\* invoking fetch; a call made once cacheTimeout has elapsed since the entry
\* was stored invokes fetch and returns the newer value.
C1_HitWithinTtlMissAfter ==
    \A g \in Getters :
        getter[g].pc # "idle" =>
            /\ getter[g].hit =>
                  /\ getter[g].pc = "returned"
                  /\ getter[g].result = getter[g].seen
                  /\ ~getter[g].fetched
            /\ getter[g].stale =>
                  /\ getter[g].fetched
                  /\ getter[g].pc = "returned" => getter[g].result > getter[g].seen

\* C1 witness: one call has been answered from an entry one millisecond
\* short of the timeout, another has fetched anew for an entry exactly
\* cacheTimeout old.
C1_Witness ==
    \E g, h \in Getters :
        /\ getter[g].pc = "returned" /\ getter[g].hit /\ ~getter[g].fetched
        /\ getter[h].pc = "returned" /\ getter[h].stale /\ getter[h].fetched
        /\ getter[h].key = getter[g].key
        /\ getter[h].result > getter[g].result
        /\ cache[getter[h].key].timestamp = CacheTimeout

\* C2: when the fetch function fails, the call fails and the cache map is
\* left exactly as it was.
C2_FailedFetchLeavesCache ==
    [][\A g \in Getters :
          (/\ getter[g].pc = "fetching" /\ getter[g].fetch = "rejected"
           /\ getter'[g].pc # "fetching") =>
              (getter'[g].pc = "failed" /\ cache' = cache)]_vars

\* C2 witness: a call has failed; its key still holds the expired entry
\* that made it fetch, and the other key has no entry.
C2_Witness ==
    \E g \in Getters :
        /\ getter[g].pc = "failed"
        /\ getter[g].stale
        /\ cache[getter[g].key].data = getter[g].seen
        /\ now - cache[getter[g].key].timestamp >= CacheTimeout
        /\ \E k \in Keys : k \notin DOMAIN cache

(***************************************************************************)
(* Claims about getMultipleQuotes                                          *)
(***************************************************************************)
RECURSIVE SuccessfulQuotes(_)
\* the quotes of the getStockData calls that succeeded, in call order
SuccessfulQuotes(outs) ==
    IF Len(outs) = 0 THEN << >>
    ELSE (IF Head(outs).ok THEN Head(outs).quote ELSE << >>)
         \o SuccessfulQuotes(Tail(outs))

\* getMultipleQuotes has returned or thrown after its batched call failed
BatchFailedDone(wr) == wr.op = "multi" /\ wr.pc = "done" /\ wr.batchFailed

\* C9: when the batched provider call of getMultipleQuotes fails,
\* getStockData has been called once for each input symbol, in input order,
\* the result is the list of the quotes of the calls that succeeded, in that
\* order (empty when all failed), and getMultipleQuotes has not thrown.
C9_FallbackCollectsSuccesses ==
    \A w \in Workers :
        BatchFailedDone(worker[w]) =>
            /\ ~worker[w].failed
            /\ Len(worker[w].outcomes) = Len(worker[w].symbols)
            /\ \A k \in DOMAIN worker[w].symbols :
                   worker[w].outcomes[k].symbol = worker[w].symbols[k]
            /\ worker[w].result = SuccessfulQuotes(worker[w].outcomes)
            /\ ((\A k \in DOMAIN worker[w].outcomes : ~worker[w].outcomes[k].ok)
                   => worker[w].result = << >>)

\* the batch failed, one fallback lookup succeeded and another failed
C9_Witness ==
    \E w \in Workers :
        /\ BatchFailedDone(worker[w])
        /\ Len(worker[w].result) = 1
        /\ Len(worker[w].symbols) = 3
        /\ worker[w].outcomes[1].ok
        /\ ~worker[w].outcomes[3].ok

\* the batch failed and every fallback lookup failed
C9_WitnessAllFail ==
    \E w \in Workers :
        /\ BatchFailedDone(worker[w])
        /\ Len(worker[w].symbols) > 0
        /\ worker[w].result = << >>

\* getMultipleQuotes was called with an empty array
EmptyCall(wr) == wr.op = "multi" /\ Len(wr.symbols) = 0

\* C10: getMultipleQuotes([]) returns [] and has made no provider call and
\* taken no rate-limiter slot; no step of the call changes the limiter.
C10_EmptyListNoUpstream ==
    /\ [](\A w \in Workers :
            EmptyCall(worker[w]) =>
                /\ worker[w].provCalls = 0
                /\ worker[w].slots = 0
                /\ worker[w].pc = "done" =>
                       worker[w].result = << >> /\ ~worker[w].failed)
    /\ [][\A w \in Workers :
            EmptyCall(worker'[w]) /\ worker'[w] # worker[w] => rateLimit' = rateLimit]_vars

\* getMultipleQuotes([]) has returned while the limiter has counted requests
C10_Witness ==
    \E w \in Workers :
        /\ EmptyCall(worker[w])
        /\ worker[w].pc = "done"
        /\ yahooFinance = "module"
        /\ rateLimit.requests > 0

(***************************************************************************)
(* Claims about getRelevantMarketData                                      *)
(***************************************************************************)
\* the symbols of a message, by the extractor
SymbolsOf(msg) ==
    LET syms == extractSymbolsFromMessage(msg)
    IN  [k \in DOMAIN syms |-> Str(syms[k])]

\* C11: getRelevantMarketData(message) returns null when the extractor
\* yields no symbol, and then no provider call is made and no rate-limiter
\* slot is taken; when it yields symbols, getMultipleQuotes is called with
\* exactly these symbols and the object returned holds them as
\* extractedSymbols and the quotes getMultipleQuotes returned.
C11_NullWithoutSymbolsElseQuotes ==
    \A w \in Workers :
        worker[w].op = "relevant" =>
            IF Len(SymbolsOf(worker[w].message)) = 0
            THEN /\ worker[w].provCalls = 0
                 /\ worker[w].slots = 0
                 /\ worker[w].pc = "done"
                 /\ worker[w].ctx = "null"
            ELSE /\ worker[w].symbols = SymbolsOf(worker[w].message)
                 /\ worker[w].pc = "done" =>
                       /\ worker[w].ctx = "object"
                       /\ worker[w].extractedSymbols = SymbolsOf(worker[w].message)
                       /\ worker[w].relevantData = worker[w].result

\* a message without symbols was answered with null while the limiter had
\* counted requests
C11_WitnessNull ==
    \E w \in Workers :
        /\ worker[w].op = "relevant" /\ worker[w].pc = "done"
        /\ worker[w].ctx = "null"
        /\ rateLimit.requests > 0

\* a message with two symbols was answered with the quotes of both
C11_Witness ==
    \E w \in Workers :
        /\ worker[w].op = "relevant" /\ worker[w].pc = "done"
        /\ worker[w].ctx = "object"
        /\ worker[w].extractedSymbols = <<"A", "B">>
        /\ Len(worker[w].relevantData) = 2

(***************************************************************************)
(* Claims about getStockData                                               *)
(***************************************************************************)
\* C12: when the provider call of getStockData(symbol) fails, or finds no
\* quote for the symbol, getStockData throws an error whose message holds
\* the symbol and the text of the error, the cache is left as it was, and
\* failedRequests grows by one (successfulRequests does not grow).
C12_FailedFetchThrowsAndCounts ==
    [][\A w \in Workers :
          /\ worker[w].pc = "sd_fetch"
          /\ FetchThrows(worker[w])
          /\ worker'[w].pc # "sd_fetch"
          => /\ worker'[w].error =
                   "Failed to fetch data for " \o worker[w].sym \o ": " \o
                   (IF worker[w].fetch = "rejected" THEN worker[w].upstream
                    ELSE UndefinedQuoteText)
             /\ worker[w].op = "single" => worker'[w].failed /\ worker'[w].pc = "done"
             /\ worker[w].op # "single" =>
                    ~worker'[w].outcomes[Len(worker'[w].outcomes)].ok
             /\ cache' = cache
             /\ stats'.failedRequests = stats.failedRequests + 1
             /\ stats'.successfulRequests = stats.successfulRequests]_vars

\* getStockData("AAPL") has thrown after the provider rejected, with an
\* older quote of AAPL still in the cache
C12_Witness ==
    \E w \in Workers :
        /\ worker[w].op = "multi" /\ Len(worker[w].outcomes) = 3
        /\ worker[w].outcomes[1].ok /\ ~worker[w].outcomes[3].ok
        /\ worker[w].error = "Failed to fetch data for AAPL: Request failed"
        /\ stats.failedRequests >= 1
        /\ QuoteKey("AAPL") \in DOMAIN cache

\* getStockData has thrown because the provider knew no quote
C12_WitnessUnknown ==
    \E w \in Workers :
        /\ worker[w].op = "single" /\ worker[w].pc = "done" /\ worker[w].failed
        /\ worker[w].error =
              "Failed to fetch data for BADSYM: Cannot read properties of undefined"
        /\ QuoteKey("BADSYM") \notin DOMAIN cache

\* the numeric core fields of a quote, and the provider field of each
CoreFields ==
    {"price", "change", "changePercent", "volume", "averageVolume",
     "high", "low", "open", "previousClose"}

RawField(f) ==
    CASE f = "price" -> "regularMarketPrice"
      [] f = "change" -> "regularMarketChange"
      [] f = "changePercent" -> "regularMarketChangePercent"
      [] f = "volume" -> "regularMarketVolume"
      [] f = "averageVolume" -> "averageVolume"
      [] f = "high" -> "regularMarketDayHigh"
      [] f = "low" -> "regularMarketDayLow"
      [] f = "open" -> "regularMarketOpen"
      [] f = "previousClose" -> "regularMarketPreviousClose"

\* a value the provider left out
Omitted(v) == v \in {"undefined", "null"}

\* the quotes a finished call has returned
ReturnedQuotes(wr) ==
    IF wr.pc = "done" /\ wr.op \in {"single", "multi"} /\ ~wr.failed
    THEN {wr.result[k] : k \in DOMAIN wr.result}
    ELSE {}

\* q has the core fields of the payload p, with 0 for those p omits
CoreOfPayload(q, p) ==
    \A f \in CoreFields :
        /\ f \in DOMAIN q
        /\ q[f] = (IF Omitted(p[RawField(f)]) THEN "0" ELSE p[RawField(f)])

\* C13: every quote returned by getStockData or getMultipleQuotes has a
\* number for price, change, changePercent, volume, averageVolume, high,
\* low, open and previousClose: the provider's value, or 0 where the
\* provider's payload omits the field.
C13_CoreFieldsNumeric ==
    \A w \in Workers :
        \A q \in ReturnedQuotes(worker[w]) :
            \E kind \in {"full", "sparse"} :
                CoreOfPayload(q, Payload(kind, q.symbol))

\* the optional valuation fields of a quote, and the provider field of each
ValuationFields == {"pe", "forwardPE", "dividendYield", "marketCap"}

ValuationRawField(f) ==
    CASE f = "pe" -> "trailingPE"
      [] f = "forwardPE" -> "forwardPE"
      [] f = "dividendYield" -> "dividendYield"
      [] f = "marketCap" -> "marketCap"

\* the quotes getStockData built or took from the cache for a finished call
NormalizedQuotes(wr) ==
    IF wr.pc = "done" /\ ~wr.failed /\ (wr.op = "single" \/ wr.batchFailed)
    THEN {wr.result[k] : k \in DOMAIN wr.result}
    ELSE {}

\* q has the valuation fields of the payload p, and none or null for
\* those p omits
ValuationOfPayload(q, p) ==
    \A f \in ValuationFields :
        IF Omitted(p[ValuationRawField(f)])
        THEN f \notin DOMAIN q \/ Omitted(q[f])
        ELSE f \in DOMAIN q /\ q[f] = p[ValuationRawField(f)]

\* C14: in every normalized quote, pe, forwardPE, dividendYield and
\* marketCap are absent or null, never 0, when the provider's payload omits
\* them.
C14_ValuationAbsentNotZero ==
    \A w \in Workers :
        \A q \in NormalizedQuotes(worker[w]) :
            \E kind \in {"full", "sparse"} :
                ValuationOfPayload(q, Payload(kind, q.symbol))

(***************************************************************************)
(* Claims about calculateMarketSentiment                                   *)
(***************************************************************************)
RECURSIVE TotalChange(_)
\* the sum of the change percents of a list of index quotes
TotalChange(list) ==
    IF Len(list) = 0 THEN 0
    ELSE TotalChange(SubSeq(list, 1, Len(list) - 1)) + ChangeOf(list[Len(list)])

\* C15: calculateMarketSentiment returns neutral for a missing or empty
\* list, and otherwise the label of the mean m of the change percents:
\* bullish iff m > 1, moderately-bullish iff 0.5 < m <= 1, bearish iff
\* m < -1, moderately-bearish iff -1 <= m < -0.5, neutral iff
\* -0.5 <= m <= 0.5.
C15_SentimentByMean ==
    sentiment # "none" =>
        IF marketData = << >> \/ Len(marketData[1]) = 0
        THEN sentiment = "neutral"
        ELSE LET n == Len(marketData[1])
                 total == TotalChange(marketData[1])
             IN  /\ sentiment = "bullish" <=> total > 10 * n
                 /\ sentiment = "moderately-bullish" <=> 5 * n < total /\ total <= 10 * n
                 /\ sentiment = "bearish" <=> total < -10 * n
                 /\ sentiment = "moderately-bearish" <=> -10 * n <= total /\ total < -5 * n
                 /\ sentiment = "neutral" <=> -5 * n <= total /\ total <= 5 * n

\* two quotes with a mean of exactly 1 percent were labelled
\* moderately-bullish
C15_Witness ==
    /\ sentiment = "moderately-bullish"
    /\ marketData # << >>
    /\ Len(marketData[1]) = 2
    /\ TotalChange(marketData[1]) = 20

\* a missing list was labelled neutral
C15_WitnessMissing == sentiment = "neutral" /\ marketData = << >>

(***************************************************************************)
(* Claims about generateResponse and sendMessage                           *)
(***************************************************************************)
\* generateResponse has returned in the handler wr
Replied(wr) == wr.op = "chat" /\ Len(wr.aiResponse) = 1

\* the language model's call has failed in the handler wr
LLMFailed(wr) == wr.llm \in {"empty", "error429", "error"}

\* C16: generateResponse tries the language model, then the formatted
\* template, then the mock: the model is called only with at least one
\* quote and a configured model; a failed call is answered with the
\* formatted reply for the same quotes; without a quote the reply is the
\* mock; nothing is thrown and the source names the strategy.
C16_FallbackChain ==
    \A w \in Workers :
        /\ worker[w].llmCalls > 0 =>
               HasQuotes(worker[w]) /\ isGeminiActive /\ worker[w].llmCalls = 1
        /\ Replied(worker[w]) =>
               LET r == worker[w].aiResponse[1]
               IN  /\ ~worker[w].threw
                   /\ r.source \in {"gemini", "formatted", "mock"}
                   /\ r.source = "gemini" <=> worker[w].llm = "text"
                   /\ LLMFailed(worker[w]) =>
                          /\ r.source = "formatted"
                          /\ r.text = "quote of " \o worker[w].relevantData[1].symbol
                          /\ r.marketData = "context"
                   /\ HasQuotes(worker[w]) /\ ~isGeminiActive => r.source = "formatted"
                   /\ ~HasQuotes(worker[w]) =>
                          r.source = "mock" /\ worker[w].llmCalls = 0

\* the language model failed with a 429 and the reply is the formatted one
C16_Witness ==
    \E w \in Workers :
        /\ Replied(worker[w])
        /\ worker[w].llm = "error429"
        /\ worker[w].aiResponse[1].source = "formatted"

\* C17: a reply of generateResponse that carries market data has source
\* gemini or formatted, a reply with source mock carries none, and the
\* body sendMessage sends to the client holds the reply's source.
C17_SourceTagReachesClient ==
    \A w \in Workers :
        /\ Replied(worker[w]) =>
               LET r == worker[w].aiResponse[1]
               IN  /\ r.marketData = "context" => r.source \in {"gemini", "formatted"}
                   /\ r.source = "mock" => r.marketData = "undefined"
        /\ \A k \in DOMAIN worker[w].replies :
               worker[w].replies[k].status = 200 =>
                   /\ "source" \in DOMAIN worker[w].replies[k].body
                   /\ worker[w].replies[k].body["source"] =
                          worker[w].aiResponse[1].source

\* C18: after a 429 / quota failure of the language model the reply of
\* generateResponse differs from the reply after its answer and from the
\* reply after any other failure.
C18_RateLimitSurfaced ==
    \A w \in Workers :
        Replied(worker[w]) /\ worker[w].llm = "error429" =>
            \A other \in LLMOutcomes \ {"error429"} :
                worker[w].aiResponse[1] # ResponseAfterGemini(other, worker[w])

\* the request body passes sendMessage's validation: a userId, a message
\* that is a string with a character that is not white space, of at most
\* 5000 characters
PassesValidation(body) ==
    /\ body.userId \notin {"undefined", "null", "", "0"}
    /\ body.message.type = "string"
    /\ \E k \in DOMAIN body.message.chars : body.message.chars[k] \notin {" ", "\t", "\n"}
    /\ Len(body.message.chars) <= 5000

\* C19: a request that passes validation is never answered with an error:
\* at most one reply is sent, it is a success, and when the handler has
\* finished exactly one reply has been sent, whatever the providers did.
C19_ProviderFailuresNotFatal ==
    \A w \in Workers :
        worker[w].op = "chat" /\ PassesValidation(worker[w].body) =>
            /\ Len(worker[w].replies) <= 1
            /\ \A k \in DOMAIN worker[w].replies :
                   /\ worker[w].replies[k].status = 200
                   /\ worker[w].replies[k].body.success
            /\ worker[w].pc = "done" => Len(worker[w].replies) = 1

\* the batched call and the fallback's call both failed and the request
\* was answered with a success
C19_Witness ==
    \E w \in Workers :
        /\ worker[w].op = "chat" /\ worker[w].pc = "done"
        /\ worker[w].batchFailed
        /\ worker[w].provCalls = 2
        /\ \A k \in DOMAIN worker[w].outcomes : ~worker[w].outcomes[k].ok
        /\ worker[w].replies[1].status = 200

\* the language model failed and the request was answered with a success
C19_WitnessLLM ==
    \E w \in Workers :
        /\ worker[w].op = "chat" /\ worker[w].pc = "done"
        /\ LLMFailed(worker[w])
        /\ worker[w].replies[1].status = 200

\* C20: a request that does not pass validation is answered with one 4xx
\* reply in the step that receives it, which makes no provider or language
\* model call, takes no rate-limiter slot and leaves the history store and
\* the limiter as they were.
C20_InvalidRequestRejected ==
    /\ [](\A w \in Workers :
            worker[w].op = "chat" /\ ~PassesValidation(worker[w].body) =>
                /\ worker[w].pc = "done"
                /\ Len(worker[w].replies) = 1
                /\ worker[w].replies[1].status >= 400
                /\ worker[w].replies[1].status < 500
                /\ worker[w].provCalls = 0
                /\ worker[w].llmCalls = 0
                /\ worker[w].slots = 0)
    /\ [][\A w \in Workers :
            worker'[w].op = "chat" /\ ~PassesValidation(worker'[w].body)
            /\ worker'[w] # worker[w]
            => chatHistoryStore' = chatHistoryStore /\ rateLimit' = rateLimit]_vars

\* a message of more than 5000 characters was rejected while the limiter
\* had counted requests
C20_Witness ==
    \E w \in Workers :
        /\ worker[w].op = "chat"
        /\ Len(worker[w].body.message.chars) > 5000
        /\ worker[w].replies[1].status = 400
        /\ rateLimit.requests > 0

\* a blank message was rejected
C20_WitnessBlank ==
    \E w \in Workers :
        /\ worker[w].op = "chat"
        /\ worker[w].body.message.chars = <<" ", " ">>
        /\ worker[w].replies[1].status = 400

(***************************************************************************)
(* Shutdown on a termination signal                                        *)
(***************************************************************************)
\* C21: on SIGTERM or SIGINT the process exits only after the close of the
\* HTTP server has completed (its 'close' event emitted and the close
\* callback run), and with exit code 0.
C21_ExitAfterServerClose ==
    process.state = "exited" =>
        /\ process.closedAtExit
        /\ process.exitCode = 0

(***************************************************************************)
(* The order of the steps of one getStockData call                         *)
(***************************************************************************)
\* the positions of a getStockData call, in the order of its code
StockDataOrder ==
    [sd_ready |-> 1, sd_wait |-> 2, sd_granted |-> 3, sd_fetch |-> 4, sd_return |-> 5]

InStockData(wr) == wr.pc \in DOMAIN StockDataOrder

\* C22: within one getStockData call the steps run in the order rate limit,
\* cache check, fetch, normalize, return: the call reaches the cache only by
\* a step that takes a slot of the limiter, the cache is consulted only
\* there, and a call answered from the cache has taken its slot (possibly
\* after waiting for it) but makes no provider call.
C22_RateLimitBeforeCache ==
    [][\A w \in Workers :
        LET wr == worker[w]
            wr2 == worker'[w]
        IN  /\ (InStockData(wr) /\ InStockData(wr2))
                   => StockDataOrder[wr.pc] <= StockDataOrder[wr2.pc]
            /\ (wr2.pc = "sd_granted" /\ wr.pc # "sd_granted")
                   => /\ wr.pc \in {"sd_ready", "sd_wait"}
                      /\ \/ rateLimit'.requests = rateLimit.requests + 1
                         \/ /\ rateLimit'.requests = 1
                            /\ rateLimit'.resetTime > rateLimit.resetTime
            /\ (wr.op \in {"single", "multi"} /\ wr # wr2
                /\ (stats'.cacheHits # stats.cacheHits
                    \/ stats'.cacheMisses # stats.cacheMisses))
                   => wr.pc = "sd_granted"
            /\ (wr.pc = "sd_granted" /\ stats'.cacheHits # stats.cacheHits)
                   => /\ wr2.pc = "sd_return"
                      /\ wr2.provCalls = wr.provCalls
                      /\ wr2.fetch # "pending"
                      /\ rateLimit' = rateLimit
                      /\ rateLimit.requests >= 1
      ]_vars

\* the third call of a fallback is answered from the cache: three lookups,
\* one hit, four slots (the batch and three calls), three provider calls
C22_Witness ==
    \E w \in Workers :
        /\ worker[w].pc = "sd_return"
        /\ worker[w].symbols = <<"AAPL", "BADSYM", "AAPL">>
        /\ stats.cacheHits = 1
        /\ stats.cacheMisses = 2
        /\ worker[w].slots = 4
        /\ worker[w].provCalls = 3

\* a call that was suspended by the limiter and then answered from the cache
C22_WitnessSuspended ==
    \E w \in Workers :
        /\ worker[w].pc = "sd_return"
        /\ worker[w].wakeAt > 0
        /\ stats.cacheHits = 1
        /\ stats.cacheMisses = 2
        /\ worker[w].provCalls = 3

(***************************************************************************)
(* Callers suspended together by the limiter                               *)
(***************************************************************************)
\* a call of checkRateLimit that waited and has returned
ReturnedAfterWait(c) == caller[c].pc = "returned" /\ caller[c].wakeAt > 0

\* C23: a caller of checkRateLimit that had to wait resets the window when it
\* resumes, whatever the window then holds (requests = 0, resetTime = now +
\* 60 s), and takes one slot; so when all the callers that were suspended
\* together have proceeded, the counter is 1 and not their number.
C23_WaitersEachReset ==
    /\ []((\A c \in Callers : ReturnedAfterWait(c)) => rateLimit.requests = 1)
    /\ [][\A c \in Callers :
            (caller[c].pc = "waiting" /\ caller'[c].pc = "returned")
                => /\ rateLimit'.requests = 1
                   /\ rateLimit'.resetTime = now + WindowMs
         ]_vars

\* two callers were suspended behind the same window and both proceeded at
\* its reset: two calls returned in the new window, the counter is 1
C23_Witness ==
    /\ \A c \in Callers :
          /\ ReturnedAfterWait(c)
          /\ caller[c].returnedAt = caller[c].wakeAt
    /\ caller["c1"].wakeAt = caller["c2"].wakeAt
    /\ granted = 2
    /\ rateLimit.requests = 1

(***************************************************************************)
(* Concurrent callers of getCachedData for one key                         *)
(***************************************************************************)
\* C24: two concurrent callers of getCachedData for the same missing or
\* expired key both invoke fetch; each of them, when its fetch has completed,
\* replaces the key's entry by the pair of its own fetched data and the time
\* of the write, whatever the entry then holds, so that the last writer's
\* entry stays; an entry changes in no other way, and never holds the data
\* of one fetch with the timestamp of another write.
C24_EntriesWrittenWhole ==
    [][/\ DOMAIN cache \subseteq DOMAIN cache'
       /\ \A g \in Getters :
             (getter[g].pc = "fetching" /\ getter'[g].pc = "returned")
                 => /\ getter[g].key \in DOMAIN cache'
                    /\ cache'[getter[g].key] =
                           [data |-> getter[g].value, timestamp |-> now]
       /\ \A k \in DOMAIN cache' :
             (k \notin DOMAIN cache \/ cache'[k] # cache[k])
                 => \E g \in Getters :
                       /\ getter[g].pc = "fetching"
                       /\ getter[g].fetch = "resolved"
                       /\ getter[g].key = k
                       /\ getter'[g].pc = "returned"
                       /\ cache'[k] = [data |-> getter[g].value, timestamp |-> now]
      ]_vars

\* both callers found the key missing and invoked fetch; the first fetch
\* completed last, after the clock had advanced, and its older data replaced
\* the entry of the second fetch
C24_Witness ==
    /\ \A g \in Getters :
          /\ getter[g].pc = "returned"
          /\ getter[g].fetched
          /\ ~getter[g].hit /\ ~getter[g].stale
          /\ getter[g].key = "k1"
    /\ getter["g1"].value # getter["g2"].value
    /\ fetchSeq = 2
    /\ cache["k1"] = [data |-> 1, timestamp |-> now]
    /\ now > 0

(***************************************************************************)
(* GET /market/:symbol                                                     *)
(***************************************************************************)
\* C25: every GET /market/:symbol request gets exactly one response, the
\* success envelope with the quote when getStockData succeeds and the 500
\* error envelope when it fails; no error leaves the handler and no request
\* stays unanswered.
C25_MarketRouteAlwaysAnswers ==
    \A w \in Workers :
        (worker[w].op = "market" /\ worker[w].pc = "done") =>
            /\ worker[w].escaped = "none"
            /\ Len(worker[w].replies) = 1
            /\ worker[w].failed =>
                  /\ worker[w].replies[1].status = 500
                  /\ ~worker[w].replies[1].body.success
            /\ ~worker[w].failed =>
                  /\ worker[w].replies[1].status = 200
                  /\ worker[w].replies[1].body = MarketBody(worker[w])

(***************************************************************************)
(* Which symbols getMultipleQuotes asks the provider for                   *)
(***************************************************************************)
\* a provider request of a getMultipleQuotes call is in flight
BatchInFlight(wr) ==
    wr.op = "multi" /\ wr.pc = "mq_fetch" /\ wr.fetch = "pending"

FallbackInFlight(wr) ==
    wr.op = "multi" /\ wr.pc = "sd_fetch" /\ wr.fetch = "pending"

\* C26: getMultipleQuotes issues no provider request for an element of its
\* input that fails its validation (not a string, or of a length outside
\* 1..5), neither in the batched call nor in the fallback that follows a
\* failed batched call.
C26_NoRequestForInvalidElement ==
    \A w \in Workers :
        /\ BatchInFlight(worker[w]) =>
              \A k \in DOMAIN worker[w].valid : IsFetchable(worker[w].valid[k])
        /\ FallbackInFlight(worker[w]) => IsFetchable(worker[w].sym)

(***************************************************************************)
(* Batch lookups and the quote cache                                       *)
(***************************************************************************)
\* the batched provider call of the finished getMultipleQuotes call of
\* handler w succeeded with a quote for each of its valid symbols
BatchSucceeded(w) ==
    /\ worker[w].op = "multi"
    /\ worker[w].pc = "done"
    /\ ~worker[w].batchFailed
    /\ worker[w].provCalls = 1
    /\ Len(worker[w].result) = Len(worker[w].valid)

\* the symbols a finished request has asked for
Requested(v) ==
    IF worker[v].op = "single" THEN {worker[v].sym} ELSE Range(worker[v].symbols)

\* C27: batch lookups are served through the quote cache: once the batched
\* provider call of a getMultipleQuotes call has succeeded for a symbol, a
\* getStockData of that symbol or another getMultipleQuotes that contains it,
\* made less than 60 s later, makes no provider call.
C27_BatchServedFromCache ==
    \A w, v \in DOMAIN worker :
        (/\ BatchSucceeded(w)
         /\ w \in worker[v].after
         /\ worker[v].pc = "done"
         /\ Requested(v) \subseteq Range(worker[w].valid)
         /\ now < CacheTimeout)
            => worker[v].provCalls = 0

(***************************************************************************)
(* getDetailedStockData and the cache                                      *)
(***************************************************************************)
\* the finished getDetailedStockData call of handler w ran the fetch function
\* and every provider call of it failed
AllDetailedCallsFailed(w) ==
    /\ worker[w].op = "detailed"
    /\ worker[w].pc = "done"
    /\ worker[w].parts = <<"rejected", "rejected", "rejected">>

\* C28: getDetailedStockData stores a cache entry only when provider data was
\* obtained: when the quote-summary, historical and chart calls have all
\* failed, a retry for the same symbol within 60 s calls the provider again
\* and is not served the empty object.
C28_EmptyDetailNotCached ==
    \A w, v \in DOMAIN worker :
        (/\ AllDetailedCallsFailed(w)
         /\ w \in worker[v].after
         /\ worker[v].op = "detailed"
         /\ worker[v].pc = "done"
         /\ worker[v].sym = worker[w].sym
         /\ yahooFinance # "null"
         /\ now < CacheTimeout)
            => /\ worker[v].provCalls > 0
               /\ worker[v].result # worker[w].result

(***************************************************************************)
(* The in-memory chat history under concurrent requests                    *)
(***************************************************************************)
\* a history of user/assistant pairs, within the limit
WellFormedHistory(h) ==
    /\ Len(h) % 2 = 0
    /\ Len(h) <= HistoryLimit
    /\ \A k \in DOMAIN h : h[k].role = IF k % 2 = 1 THEN "user" ELSE "assistant"

HistoryOf(store, u) == IF u \in DOMAIN store THEN store[u] ELSE << >>

C29_WitnessCleared ==
    \E w \in Handlers :
        /\ worker[w].op = "chat"
        /\ worker[w].pc = "done"
        /\ worker[w].replies[1].status = 200
        /\ Len(worker[w].chatHistory) = ContextLen
        /\ "u1" \in DOMAIN chatHistoryStore
        /\ Len(chatHistoryStore["u1"]) = 2
        /\ chatHistoryStore["u1"][1].content = worker[w].body.message.chars

(***************************************************************************)
(* The load of the provider module                                         *)
(***************************************************************************)
\* C30: the load of the provider module is started once, whatever the number
\* of operations that await ensureReady, and its failure is permanent: no
\* operation starts it again, every getStockData then fails with an error,
\* and every getMultipleQuotes, getTrendingSymbols and searchStocks returns
\* an empty list, no provider call being made.
C30_LoadOnceFailurePermanent ==
    /\ [](initPromise = "rejected" =>
            /\ yahooFinance = "null"
            /\ \A w \in DOMAIN worker :
                  /\ worker[w].provCalls = 0
                  /\ worker[w].fetch # "pending"
                  /\ worker[w].pc = "done" =>
                        /\ worker[w].op = "single" =>
                              (worker[w].failed /\ worker[w].error # "none"
                               /\ worker[w].result = << >>)
                        /\ worker[w].op \in {"multi"} \cup ListOps =>
                              worker[w].result = << >>)
    /\ [][/\ initPromise # "pending" =>
                (initPromise' = initPromise /\ yahooFinance' = yahooFinance)
          /\ worker' # worker =>
                (initPromise' = initPromise /\ yahooFinance' = yahooFinance)
         ]_vars

\* the load has failed while a getStockData and a getMultipleQuotes were
\* waiting for it or after: the first has failed, the second has tried
\* each of its symbols in the fallback and returned []
C30_Witness ==
    /\ initPromise = "rejected"
    /\ \E w, v \in Handlers :
          /\ worker[w].op = "single" /\ worker[w].pc = "done" /\ worker[w].failed
          /\ worker[v].op = "multi" /\ worker[v].pc = "done"
          /\ Len(worker[v].outcomes) = Len(worker[v].symbols)
          /\ worker[v].result = << >>
    /\ stats.failedRequests = 3

\* the same for getTrendingSymbols and searchStocks
C30_WitnessLists ==
    /\ initPromise = "rejected"
    /\ \E w, v \in Handlers :
          /\ worker[w].op = "trending" /\ worker[w].pc = "done"
          /\ worker[v].op = "search" /\ worker[v].pc = "done"
          /\ worker[w].result = << >> /\ worker[v].result = << >>

====
